---- MODULE Spec2Model ----
(***************************************************************************)
(* A model of @sgnl-ai/secevent: the SecEventParser (decode / verify with  *)
(* its key-source selection and sequential key trial), the SecEventBuilder *)
(* (fluent mutators, buildPayload, sign, reset and clone), the KeyManager  *)
(* and the Events factories.                                               *)
(*                                                                         *)
(* The external collaborators (jose's jwtVerify and decodeJwt, the signer,  *)
(* the remote key set, the ID generator, the clock) are modelled by what   *)
(* the code observes of them: a deterministic outcome per (token, key,     *)
(* constraints), a counter, a millisecond clock.                           *)
(***************************************************************************)
EXTENDS Integers, Sequences, FiniteSets, TLC

VARIABLES
    parser,     \* the SecEventParser instance: its options and its jwks
    calls,      \* the verify calls in flight or completed, by call id
    decoded,    \* the last decode call: its token and its completion
    peer,       \* a second SecEventParser instance, if any
    builder,    \* the SecEventBuilder instance: its options and its fields
    built,      \* the completion of the last buildPayload call
    idCalls,    \* how many times the ID generator has been called
    clock,      \* Date.now(), in milliseconds
    heap,       \* the custom-claims objects of the builders, by object id
    copy,       \* the builder the last clone() returned, if any
    signing,    \* the sign calls in flight or completed, by call id
    held,       \* the payloads buildPayload returned that the caller still holds
    keyManager, \* the KeyManager instance: the entries of its Map, in order
    keyObjects, \* the SigningKey objects of the caller and of the KeyManager, by id
    answer,     \* the last KeyManager call and what it returned
    lastEvent   \* the last call of an Events factory and the event it returned

vars == <<parser, calls, decoded, peer, builder, built, idCalls, clock, heap, copy, signing,
          held, keyManager, keyObjects, answer, lastEvent>>
parserVars == <<parser, calls, decoded, peer>>
builderVars == <<builder, built, idCalls, clock, heap, copy, signing, held>>
managerVars == <<keyManager, keyObjects, answer>>

(***************************************************************************)
(* Bounds of the model.                                                    *)
(***************************************************************************)
MaxKeys == 2        \* longest candidate-key list
MaxIdCalls == 1     \* calls of the ID generator in a behaviour
MaxTicks == 1       \* milliseconds the clock advances in a behaviour
MaxHeld == 2        \* payloads of buildPayload the caller holds at once

(***************************************************************************)
(* JavaScript values. Every value carries its type tag, so that            *)
(* truthiness, typeof and Array.isArray are computed as the language does. *)
(***************************************************************************)
Undefined == [t |-> "undefined"]
Null == [t |-> "null"]
Str(s) == [t |-> "string", s |-> s]
Num(n) == [t |-> "number", n |-> n]
Bool(b) == [t |-> "boolean", b |-> b]
Arr(items) == [t |-> "array", items |-> items]
\* a plain object: its own keys in insertion order, and their values
ObjOf(keys, vals) == [t |-> "object", keys |-> keys, vals |-> vals]
\* an object whose values are of no interest
Obj(keys) == ObjOf(keys, [k \in {keys[i] : i \in DOMAIN keys} |-> [t |-> "object", keys |-> <<>>]])
Err(message) == [t |-> "Error", message |-> message]

Truthy(v) == v \notin {Undefined, Null, Str(""), Num(0), Bool(FALSE)}
TypeOf(v) ==
    CASE v.t = "undefined" -> "undefined"
      [] v.t = "string" -> "string"
      [] v.t = "number" -> "number"
      [] v.t = "boolean" -> "boolean"
      [] OTHER -> "object"
IsArray(v) == v.t = "array"

\* o.k for an object held as a function from its keys: undefined when absent
Get(o, k) == IF k \in DOMAIN o THEN o[k] ELSE Undefined
\* { ...a, ...b }
Spread(a, b) == [k \in (DOMAIN a) \cup (DOMAIN b) |-> IF k \in DOMAIN b THEN b[k] ELSE a[k]]
\* the object with no keys
Empty == [k \in {} |-> Undefined]

Range(s) == {s[i] : i \in DOMAIN s}

RECURSIVE Join(_, _)
\* Array.prototype.join
Join(s, sep) ==
    IF Len(s) = 0 THEN ""
    ELSE IF Len(s) = 1 THEN s[1]
    ELSE s[1] \o sep \o Join(Tail(s), sep)

(***************************************************************************)
(* Keys, tokens and the external verifier.                                 *)
(***************************************************************************)
\* Key material, as the verifier sees it: a shared secret, a value that is no
\* key at all, or a key-resolving function that raises a non-Error value.
Material(m) == [t |-> "material", m |-> m]

\* SigningKey { kid?, alg, key }: key is the opaque key material
SigningKey(kid, m) == [t |-> "key", kid |-> kid, alg |-> "HS256", key |-> Material(m)]

keyA == SigningKey("a", "secret1")
keyB == SigningKey("b", "secret1")
keyW == SigningKey("w", "secret2")
keyN == SigningKey("n", "notakey")
keyT == SigningKey("t", "thrower")
Keys == {keyA, keyB, keyW, keyN, keyT}

RECURSIVE SeqsUpTo(_, _)
SeqsUpTo(S, n) ==
    IF n = 0 THEN {<<>>}
    ELSE LET shorter == SeqsUpTo(S, n - 1)
         IN shorter \cup {Append(s, x) : s \in {q \in shorter : Len(q) = n - 1}, x \in S}

KeyLists == SeqsUpTo(Keys, MaxKeys)

\* the remote key set behind the parser's jwksUrl
JwksUrl == "https://idp.example.com/.well-known/jwks.json"
RemoteKeySet(url) == [t |-> "jwks", url |-> url, secrets |-> {"secret1"}]

\* claim sets carried by the tokens
payloadValid ==
    [iss |-> Str("https://example.com"), jti |-> Str("test-123"), iat |-> Num(1700),
     events |-> Obj(<<"https://example.com/event">>)]
payloadInvalid ==
    [jti |-> Str("test-456"), iat |-> Num(1700), sub |-> Str("user"),
     events |-> Obj(<<"not-a-url", "urn:example:event">>)]
payloadNoEvents ==
    [iss |-> Str("https://example.com"), jti |-> Str("test-789"), iat |-> Num(1700),
     events |-> Obj(<<>>)]
payloadNoIssNoJti ==
    [iat |-> Num(1700), events |-> Obj(<<"https://example.com/event">>)]
payloadMixedEvents ==
    [iss |-> Str("https://example.com"), jti |-> Str("test-mixed"), iat |-> Num(1700),
     events |-> Obj(<<"http://example.com/event", "not-a-url", "https://example.com/event">>)]
\* payloadValid with a top-level sub claim, and payloadInvalid with another one
payloadWithSub ==
    [iss |-> Str("https://example.com"), jti |-> Str("test-123"), iat |-> Num(1700),
     sub |-> Str("user"), events |-> Obj(<<"https://example.com/event">>)]
payloadInvalidOtherSub ==
    [jti |-> Str("test-456"), iat |-> Num(1700), sub |-> Str("other"),
     events |-> Obj(<<"not-a-url", "urn:example:event">>)]

\* A token: whether it is a well-formed compact JWS, the secret it was signed
\* with, and its claims.
Token(wellFormed, secret, claims) == [wellFormed |-> wellFormed, secret |-> secret, claims |-> claims]
Tokens ==
    { Token(TRUE, "secret1", payloadValid),
      Token(TRUE, "secret1", payloadInvalid),
      Token(TRUE, "secret2", payloadNoEvents),
      Token(TRUE, "secret1", payloadNoIssNoJti),
      Token(TRUE, "secret1", payloadMixedEvents),
      Token(TRUE, "secret1", payloadWithSub),
      Token(TRUE, "secret1", payloadInvalidOtherSub),
      Token(FALSE, "secret1", payloadValid) }

Ok(claims) == [ok |-> TRUE, payload |-> claims]
Raise(e) == [ok |-> FALSE, error |-> e]

\* a point in time, as a Date object
Date(ms) == [t |-> "date", ms |-> ms]

\* whether an aud claim, a string or a list of strings, names the audience
AudienceAccepted(aud, expected) ==
    CASE aud.t = "string" -> aud = expected
      [] aud.t = "array" -> expected.s \in {aud.items[i] : i \in DOMAIN aud.items}
      [] OTHER -> FALSE

\* The constraints of jwtOptions on the claims (jose's claim checks). The
\* tokens of the model are taken as issued within any maxTokenAge of any
\* currentDate, so the options on time constrain nothing.
ClaimsError(claims, jwtOptions) ==
    IF "issuer" \in DOMAIN jwtOptions /\ Get(claims, "iss") # jwtOptions["issuer"]
    THEN <<Err("unexpected \"iss\" claim value")>>
    ELSE IF "audience" \in DOMAIN jwtOptions
            /\ ~AudienceAccepted(Get(claims, "aud"), jwtOptions["audience"])
    THEN <<Err("unexpected \"aud\" claim value")>>
    ELSE <<>>

\* jose's jwtVerify(jwt, key, options): the claims, or the error it raises.
\* key is key material or a remote key set.
jwtVerify(jwt, key, jwtOptions) ==
    IF ~jwt.wellFormed THEN Raise(Err("Invalid Compact JWS"))
    ELSE IF key.t = "jwks" THEN
        IF jwt.secret \notin key.secrets
        THEN Raise(Err("no applicable key found in the JSON Web Key Set"))
        ELSE IF ClaimsError(jwt.claims, jwtOptions) # <<>>
        THEN Raise(ClaimsError(jwt.claims, jwtOptions)[1])
        ELSE Ok(jwt.claims)
    ELSE IF key.m = "thrower" THEN Raise(Str("String error"))
    ELSE IF key.m = "notakey" THEN Raise(Err("Key must be one of type KeyObject or Uint8Array."))
    ELSE IF key.m # jwt.secret THEN Raise(Err("signature verification failed"))
    ELSE IF ClaimsError(jwt.claims, jwtOptions) # <<>>
    THEN Raise(ClaimsError(jwt.claims, jwtOptions)[1])
    ELSE Ok(jwt.claims)

(***************************************************************************)
(* ValidationOptions.                                                      *)
(***************************************************************************)
OptionSets ==
    { Empty,
      [issuer |-> Str("https://other.com")],
      [requiredClaims |-> Arr(<<"txn", "sub">>), maxTokenAge |-> Num(60)],
      [requiredClaims |-> Arr(<<"constructor", "jti", "txn">>)] }

(***************************************************************************)
(* SecEventParser: structural and semantic validation.                     *)
(***************************************************************************)
\* new URL(uri): whether it parses, and its protocol
ParseUrl(uri) ==
    CASE uri = "https://example.com/event" -> [ok |-> TRUE, protocol |-> "https:"]
      [] uri = "http://example.com/event" -> [ok |-> TRUE, protocol |-> "http:"]
      [] uri = "https://schemas.openid.net/secevent/ssf/event-type/verification" ->
            [ok |-> TRUE, protocol |-> "https:"]
      [] uri = "urn:example:event" -> [ok |-> TRUE, protocol |-> "urn:"]
      [] OTHER -> [ok |-> FALSE, protocol |-> ""]

\* a check of the URI that accepts every scheme
isValidEventUri_AnyScheme(uri) == ParseUrl(uri).ok

isValidEventUri(uri) ==
    LET url == ParseUrl(uri)
    IN url.ok /\ (url.protocol = "https:" \/ url.protocol = "http:")

\* Object.keys(v) of a truthy value
ObjectKeys(v) ==
    CASE v.t = "object" -> v.keys
      [] v.t = "array" -> [i \in 1..Len(v.items) |-> ToString(i - 1)]
      [] v.t = "string" -> [i \in 1..Len(v.s) |-> ToString(i - 1)]
      [] OTHER -> <<>>

\* The message of the Error validatePayloadStructure throws, as a sequence of
\* at most one message: empty when it returns normally.
validatePayloadStructure(payload) ==
    IF ~Truthy(Get(payload, "events")) \/ TypeOf(Get(payload, "events")) # "object"
    THEN <<"Missing or invalid events claim">>
    ELSE IF ~Truthy(Get(payload, "iss")) \/ TypeOf(Get(payload, "iss")) # "string"
    THEN <<"Missing or invalid issuer claim">>
    ELSE IF ~Truthy(Get(payload, "jti")) \/ TypeOf(Get(payload, "jti")) # "string"
    THEN <<"Missing or invalid jti claim">>
    ELSE IF TypeOf(Get(payload, "iat")) # "number"
    THEN <<"Missing or invalid iat claim">>
    ELSE <<>>

\* Names every object has by inheritance from Object.prototype: the claims
\* object the verifier returns is a parsed JSON object.
ObjectPrototypeKeys ==
    {"constructor", "hasOwnProperty", "isPrototypeOf", "propertyIsEnumerable",
     "toLocaleString", "toString", "valueOf", "__proto__"}

\* `k in o`: an own property, or an inherited one
In(k, o) == k \in DOMAIN o \/ k \in ObjectPrototypeKeys

RECURSIVE requiredClaimErrors(_, _)
\* the loop over options.requiredClaims
requiredClaimErrors(payload, claims) ==
    IF claims = <<>> THEN <<>>
    ELSE (IF In(Head(claims), payload) THEN <<>>
          ELSE <<"Missing required claim: " \o Head(claims)>>)
         \o requiredClaimErrors(payload, Tail(claims))

RECURSIVE eventUriErrors(_)
\* the loop over Object.keys(payload.events)
eventUriErrors(uris) ==
    IF uris = <<>> THEN <<>>
    ELSE (IF isValidEventUri(Head(uris)) THEN <<>>
          ELSE <<"Invalid event URI format: " \o Head(uris)>>)
         \o eventUriErrors(Tail(uris))

\* a validation that reports a top-level sub claim
validateSecEvent_FlagsSub(payload, options) ==
    LET structure == validatePayloadStructure(payload)
        required ==
            IF Truthy(Get(options, "requiredClaims"))
            THEN requiredClaimErrors(payload, Get(options, "requiredClaims").items)
            ELSE <<>>
        events == Get(payload, "events")
        eventErrors ==
            IF Truthy(events)
            THEN (IF Len(ObjectKeys(events)) = 0
                  THEN <<"No events present in events claim">> ELSE <<>>)
                 \o eventUriErrors(ObjectKeys(events))
            ELSE <<>>
        subject == IF Truthy(Get(payload, "sub"))
                   THEN <<"The sub claim should not be used">> ELSE <<>>
    IN structure \o required \o eventErrors \o subject

\* a validation that lets an events claim without entries pass
validateSecEvent_AllowsEmpty(payload, options) ==
    LET structure == validatePayloadStructure(payload)
        required ==
            IF Truthy(Get(options, "requiredClaims"))
            THEN requiredClaimErrors(payload, Get(options, "requiredClaims").items)
            ELSE <<>>
        events == Get(payload, "events")
        eventErrors ==
            IF Truthy(events) THEN eventUriErrors(ObjectKeys(events)) ELSE <<>>
    IN structure \o required \o eventErrors

validateSecEvent(payload, options) ==
    LET structure == validatePayloadStructure(payload)
        required ==
            IF Truthy(Get(options, "requiredClaims"))
            THEN requiredClaimErrors(payload, Get(options, "requiredClaims").items)
            ELSE <<>>
        events == Get(payload, "events")
        eventErrors ==
            IF Truthy(events)
            THEN (IF Len(ObjectKeys(events)) = 0
                  THEN <<"No events present in events claim">> ELSE <<>>)
                 \o eventUriErrors(ObjectKeys(events))
            ELSE <<>>
    IN structure \o required \o eventErrors

(***************************************************************************)
(* SecEventParser.verify, cut at its suspension points: the awaits of      *)
(* jwtVerify. What runs between two awaits runs as one step.               *)
(***************************************************************************)
Return(value) == [kind |-> "return", value |-> value]
Throw(error) == [kind |-> "throw", error |-> error]

\* a verify call that has not begun
IdleCall ==
    [pc |-> "idle", jwt |-> Undefined, verificationKey |-> Undefined, options |-> Empty,
     mergedOptions |-> Empty, keys |-> Undefined, jwtOptions |-> Empty, idx |-> 0,
     lastError |-> Undefined, payload |-> Undefined, verifierCalls |-> <<>>,
     result |-> Undefined]

\* a merge in which the parser's defaults win
mergeOptions_DefaultsWin(defaults, options) == Spread(options, defaults)

\* { ...this.options.defaultValidationOptions, ...options }
mergeOptions(defaults, options) == Spread(defaults, options)

\* const keys = verificationKey ? (Array.isArray ? it : [it]) : this.options.verificationKeys
selectKeys(p, verificationKey) ==
    IF Truthy(verificationKey)
    THEN (IF IsArray(verificationKey) THEN verificationKey ELSE Arr(<<verificationKey>>))
    ELSE p.options.verificationKeys

\* the guard left out
noVerificationMethod_Skipped(p, keys) == FALSE

\* if (!keys && !this.jwks)
noVerificationMethod(p, keys) == ~Truthy(keys) /\ ~Truthy(p.jwks)

\* the JWTVerifyOptions built from the merged options
buildJwtOptions(mergedOptions) ==
    LET copied == {k \in {"issuer", "audience", "clockTolerance", "currentDate"} :
                       Truthy(Get(mergedOptions, k))}
        aged == IF Truthy(Get(mergedOptions, "maxTokenAge")) THEN {"maxTokenAge"} ELSE {}
    IN [k \in copied \cup aged |->
           IF k = "maxTokenAge" THEN Str(ToString(mergedOptions[k].n) \o "s")
           ELSE mergedOptions[k]]

\* the catch clause letting the error through
verifyCatch_Rethrows(error) == Throw(error)

\* the catch clause of verify
verifyCatch(error) ==
    Return([valid |-> FALSE,
            error |-> IF error.t = "Error" THEN error.message ELSE "Unknown error"])

\* the result reported valid whatever the validation found
verifyResult_IgnoresErrors(payload, mergedOptions) ==
    Return([valid |-> TRUE, payload |-> payload])

\* the result of verify once a payload is verified
verifyResult(payload, mergedOptions) ==
    LET validationErrors == validateSecEvent(payload, mergedOptions)
    IN IF Len(validationErrors) > 0
       THEN Return([valid |-> FALSE, errors |-> validationErrors,
                    error |-> Join(validationErrors, "; ")])
       ELSE Return([valid |-> TRUE, payload |-> payload])

\* the call, completed: returned with a result or rejected with an error
settle(call, completion) ==
    IF completion.kind = "return"
    THEN [call EXCEPT !.pc = "returned", !.result = completion.value]
    ELSE [call EXCEPT !.pc = "rejected", !.result = completion.error]

\* await jwtVerify(jwt, key, jwtOptions): the verifier is invoked, the call suspends
invoke(call, pc, key) ==
    [call EXCEPT !.pc = pc,
                 !.verifierCalls = Append(@, [jwt |-> call.jwt, key |-> key,
                                              options |-> call.jwtOptions])]

\* lastError kept where every call reads and writes it: the error another
\* call left is reported
keysExhausted_SharedError(call) ==
    LET others == {c \in DOMAIN calls : Truthy(calls[c].lastError)
                                          /\ calls[c].lastError # call.lastError}
    IN verifyCatch(IF others # {} THEN calls[CHOOSE c \in others : TRUE].lastError
                   ELSE IF Truthy(call.lastError) THEN call.lastError
                   ELSE Err("Verification failed with all provided keys"))

\* if (!payload) throw lastError || new Error(...), into the catch clause
keysExhausted(call) ==
    verifyCatch(IF Truthy(call.lastError) THEN call.lastError
                ELSE Err("Verification failed with all provided keys"))

\* the head of `for (const key of keys)` at position i
tryKey(call, i) ==
    IF i <= Len(call.keys.items)
    THEN invoke([call EXCEPT !.idx = i], "awaitKey", call.keys.items[i].key)
    ELSE settle(call, keysExhausted(call))

\* the first error kept instead of the last
keyRejected_KeepsFirst(call, error) ==
    tryKey([call EXCEPT !.lastError = IF Truthy(@) THEN @ ELSE error], call.idx + 1)

\* the loop given up at the first rejected key
keyRejected_Aborts(call, error) == settle(call, verifyCatch(error))

\* the rejected key tried again
keyRejected_Retries(call, error) == tryKey([call EXCEPT !.lastError = error], call.idx)

\* catch (error) { lastError = error } and on to the next key
keyRejected(call, error) == tryKey([call EXCEPT !.lastError = error], call.idx + 1)

\* the loop without its break: the remaining keys are tried too
keyAccepted_NoBreak(call, payload) ==
    IF call.idx < Len(call.keys.items)
    THEN invoke([call EXCEPT !.payload = payload, !.idx = call.idx + 1], "awaitKey",
                call.keys.items[call.idx + 1].key)
    ELSE settle([call EXCEPT !.payload = payload], verifyResult(payload, call.mergedOptions))

\* payload = result.payload; break
keyAccepted(call, payload) ==
    settle([call EXCEPT !.payload = payload], verifyResult(payload, call.mergedOptions))

\* if (this.jwks) ... else if (keys) ... else throw
attemptVerification(p, call) ==
    IF Truthy(p.jwks) THEN invoke(call, "awaitJwks", p.jwks)
    ELSE IF Truthy(call.keys) THEN tryKey(call, 1)
    ELSE settle(call, verifyCatch(Err("No verification method available")))

\* verify, from its entry to its first await or its return
verifyBegin(p, jwt, verificationKey, options) ==
    LET mergedOptions == mergeOptions(p.options.defaultValidationOptions, options)
        keys == selectKeys(p, verificationKey)
        call == [IdleCall EXCEPT !.jwt = jwt, !.verificationKey = verificationKey,
                                 !.options = options, !.mergedOptions = mergedOptions,
                                 !.keys = keys]
    IN IF noVerificationMethod(p, keys)
       THEN settle(call, verifyCatch(Err("No verification key or JWKS URL provided")))
       ELSE attemptVerification(p, [call EXCEPT !.jwtOptions = buildJwtOptions(mergedOptions)])

\* verify, from the return of the awaited jwtVerify to the next await or its return
verifyResume(p, call) ==
    LET invoked == call.verifierCalls[Len(call.verifierCalls)]
        outcome == jwtVerify(invoked.jwt, invoked.key, invoked.options)
    IN IF call.pc = "awaitJwks"
       THEN (IF outcome.ok
             THEN settle([call EXCEPT !.payload = outcome.payload],
                         verifyResult(outcome.payload, call.mergedOptions))
             ELSE settle(call, verifyCatch(outcome.error)))
       ELSE (IF outcome.ok THEN keyAccepted(call, outcome.payload)
             ELSE keyRejected(call, outcome.error))

RECURSIVE verifyRun(_, _)
\* a verify call run to its completion
verifyRun(p, call) ==
    IF call.pc \in {"returned", "rejected"} THEN call ELSE verifyRun(p, verifyResume(p, call))

\* verify(jwt, verificationKey, options) on parser p, run alone to its completion
verify(p, jwt, verificationKey, options) ==
    verifyRun(p, verifyBegin(p, jwt, verificationKey, options))

(***************************************************************************)
(* The parsers and the calls of the model.                                 *)
(***************************************************************************)
\* jose's decodeJwt(jwt): the claims of a well-formed token, whatever its
\* signature, or the error it raises
decodeJwt(jwt) ==
    IF ~jwt.wellFormed THEN Raise(Err("Invalid JWT")) ELSE Ok(jwt.claims)

\* a decode that checks the signature with the keys of the parser, if it has any
decode_ChecksSignature(p, jwt) ==
    LET decoding == decodeJwt(jwt)
        keys == p.options.verificationKeys
    IN IF ~decoding.ok THEN Throw(decoding.error)
       ELSE IF Truthy(keys) /\ \A i \in DOMAIN keys.items : keys.items[i].key.m # jwt.secret
       THEN Throw(Err("signature verification failed"))
       ELSE IF validatePayloadStructure(decoding.payload) # <<>>
       THEN Throw(Err(validatePayloadStructure(decoding.payload)[1]))
       ELSE Return(decoding.payload)

\* decode(jwt): the claims it returns or the Error it throws
decode(p, jwt) ==
    LET decoding == decodeJwt(jwt)
    IN IF ~decoding.ok THEN Throw(decoding.error)
       ELSE IF validatePayloadStructure(decoding.payload) # <<>>
       THEN Throw(Err(validatePayloadStructure(decoding.payload)[1]))
       ELSE Return(decoding.payload)

\* new SecEventParser(options)
SecEventParser(options) ==
    [options |-> options,
     jwks |-> IF Truthy(options.jwksUrl) THEN RemoteKeySet(options.jwksUrl.s) ELSE Undefined]

ParserOptions ==
    [jwksUrl : {Undefined, Str(JwksUrl)},
     verificationKeys : {Undefined, Arr(<<>>), Arr(<<keyW, keyA>>)},
     defaultValidationOptions : {Empty, [issuer |-> Str("https://example.com")]}]

KeyArguments == {Undefined} \cup Keys \cup {Arr(l) : l \in KeyLists}

CallIds == {1}

\* The calls of the specification of concurrent calls: calls 1 and 2 are
\* made on `parser`, call 3 on `peer`.
ConcurrentCallIds == {1, 2, 3}
PeerCallIds == {3}
\* `this` of call c
ParserOf(c) == IF c \in PeerCallIds THEN peer ELSE parser

(***************************************************************************)
(* Actions of the parser.                                                  *)
(***************************************************************************)
\* parser.verify(jwt, verificationKey, options) is called
Verify(c) ==
    /\ calls[c].pc = "idle"
    /\ \E jwt \in Tokens, verificationKey \in KeyArguments, options \in OptionSets :
           calls' = [calls EXCEPT ![c] = verifyBegin(ParserOf(c), jwt, verificationKey, options)]
    /\ UNCHANGED <<parser, peer, decoded, builderVars, managerVars, lastEvent>>

\* parser.verify is called with inputs of the given sets, as a first call or
\* once the last call has returned
VerifyWith(c, tokens, keyArguments, optionSets) ==
    /\ calls[c].pc \in {"idle", "returned"}
    /\ \E jwt \in tokens, verificationKey \in keyArguments, options \in optionSets :
           calls' = [calls EXCEPT ![c] = verifyBegin(ParserOf(c), jwt, verificationKey, options)]
    /\ UNCHANGED <<parser, peer, decoded, builderVars, managerVars, lastEvent>>

\* The claim sets of the tokens given to decode: every combination of an
\* events, iss, jti and iat claim that is absent, of the right type, empty,
\* or of another type.
ClaimsOf(fields) == [k \in {f \in DOMAIN fields : fields[f] # Undefined} |-> fields[k]]
DecodeClaims ==
    { ClaimsOf(fields) :
        fields \in [events : {Undefined, Null, Str("events"), Arr(<<>>),
                              Arr(<<Str("https://example.com/event")>>),
                              Obj(<<>>), Obj(<<"https://example.com/event">>)},
                    iss : {Undefined, Str(""), Str("https://example.com"), Num(1)},
                    jti : {Undefined, Str(""), Str("test-123")},
                    iat : {Undefined, Num(0), Num(1700), Str("1700")}] }
\* what the tokens given to decode are signed with: a secret that a key of the
\* configured parser holds, and one that no key holds
DecodeSecrets == {"secret1", "forged"}
DecodeTokens ==
    {Token(TRUE, secret, claims) : secret \in DecodeSecrets, claims \in DecodeClaims}
        \cup {Token(FALSE, "secret1", payloadValid)}

\* no decode call has been made
NotDecoded == [jwt |-> Undefined, completion |-> [kind |-> "none"]]

\* parser.decode(jwt) is called and completes
Decode ==
    \E jwt \in DecodeTokens :
        /\ decoded' = [jwt |-> jwt, completion |-> decode(parser, jwt)]
        /\ UNCHANGED <<parser, peer, calls, builderVars, managerVars, lastEvent>>

\* the jwtVerify that call c awaits returns or raises
VerifierReturns(c) ==
    /\ calls[c].pc \in {"awaitJwks", "awaitKey"}
    /\ calls' = [calls EXCEPT ![c] = verifyResume(ParserOf(c), calls[c])]
    /\ UNCHANGED <<parser, peer, decoded, builderVars, managerVars, lastEvent>>

(***************************************************************************)
(* SecEventBuilder.                                                        *)
(***************************************************************************)
\* { ...a, ...b } on objects with ordered keys
ObjSpread(a, b) ==
    ObjOf(a.keys \o SelectSeq(b.keys, LAMBDA k : k \notin Range(a.keys)),
          [k \in Range(a.keys) \cup Range(b.keys) |->
              IF k \in Range(b.keys) THEN b.vals[k] ELSE a.vals[k]])

\* a SecurityEvent with one entry
Event(uri, data) == ObjOf(<<uri>>, [k \in {uri} |-> Str(data)])

\* idGenerator.generate(): the n-th value of a generator, by its prefix
generate(generator, n) == Str(generator.prefix \o ToString(n))
defaultIdGenerator == [t |-> "generator", prefix |-> "uuid-"]
PrefixedGenerator == [t |-> "generator", prefix |-> "test-uuid-"]

\* Date.now() at the start of a behaviour, in milliseconds
StartClock == 1999999

\* The objects a builder holds by reference and writes in place are its
\* custom-claims objects (withClaim assigns a property of the object the
\* field refers to); a builder's additionalClaims field is the id of such an
\* object and the heap gives the object's entries. Every other object a
\* builder holds (events, options, a signing key, an audience array) is only
\* ever replaced as a whole, never written, and is modelled by its value.
ObjectIds == {1, 2}
EmptyHeap == [ref \in ObjectIds |-> Empty]

\* A method that creates or writes a custom-claims object returns the
\* builder it leaves (`this`, or the new builder) and the heap it leaves.
Effect(this, h) == [this |-> this, heap |-> h]

\* new SecEventBuilder(options), its custom-claims object {} being `ref`
SecEventBuilder(options, h, ref) ==
    Effect([options |-> options,
            issuer |-> options.defaultIssuer,
            audience |-> options.defaultAudience,
            jti |-> Undefined,
            iat |-> Undefined,
            txn |-> Undefined,
            events |-> ObjOf(<<>>, Empty),
            additionalClaims |-> ref,
            signingKey |-> options.signingKey],
           [h EXCEPT ![ref] = Empty])

withIssuer(b, issuer) == [b EXCEPT !.issuer = issuer]
withAudience(b, audience) == [b EXCEPT !.audience = audience]
withJti(b, jti) == [b EXCEPT !.jti = jti]
withIat(b, iat) == [b EXCEPT !.iat = iat]
withTxn(b, txn) == [b EXCEPT !.txn = txn]
\* a withEvent that replaces the accumulated events by its argument
withEvent_Replaces(b, event) == [b EXCEPT !.events = event]
withEvent(b, event) == [b EXCEPT !.events = ObjSpread(@, event)]
withSigningKey(b, key) == [b EXCEPT !.signingKey = key]

\* this.additionalClaims[key] = value: the object is written in place
withClaim(b, h, key, value) ==
    Effect(b, [h EXCEPT ![b.additionalClaims] = Spread(@, [k \in {key} |-> value])])

\* a withClaims that replaces the custom claims by its argument
withClaims_Replaces(b, h, claims, ref) ==
    Effect([b EXCEPT !.additionalClaims = ref], [h EXCEPT ![ref] = claims])

\* this.additionalClaims = { ...this.additionalClaims, ...claims }: the
\* field is given a new object, `ref`
withClaims(b, h, claims, ref) ==
    Effect([b EXCEPT !.additionalClaims = ref],
           [h EXCEPT ![ref] = Spread(h[b.additionalClaims], claims)])

RECURSIVE withEvents(_, _)
\* events.forEach((event) => { this.events = { ...this.events, ...event } })
withEvents(b, events) ==
    IF events = <<>> THEN b ELSE withEvents(withEvent(b, Head(events)), Tail(events))

\* a reset that clears the issuer and keeps the custom claims
reset_Forgetful(b, h, ref) ==
    Effect([b EXCEPT
               !.issuer = Undefined,
               !.audience = b.options.defaultAudience,
               !.jti = Undefined,
               !.iat = Undefined,
               !.txn = Undefined,
               !.events = ObjOf(<<>>, Empty),
               !.signingKey = b.options.signingKey],
           h)

\* reset(), the {} it gives this.additionalClaims being `ref`
reset(b, h, ref) ==
    Effect([b EXCEPT
               !.issuer = IF b.options.defaultIssuer # Undefined
                          THEN b.options.defaultIssuer ELSE Undefined,
               !.audience = IF b.options.defaultAudience # Undefined
                            THEN b.options.defaultAudience ELSE Undefined,
               !.jti = Undefined,
               !.iat = Undefined,
               !.txn = Undefined,
               !.events = ObjOf(<<>>, Empty),
               !.additionalClaims = ref,
               !.signingKey = IF b.options.signingKey # Undefined
                              THEN b.options.signingKey ELSE Undefined],
           [h EXCEPT ![ref] = Empty])

\* the assignment `if (value !== undefined) builder.field = value` of clone
copyIfDefined(value, default) == IF value # Undefined THEN value ELSE default

\* a clone that takes this builder's custom-claims object, not a copy of it
clone_SharesClaims(b, h, ref) ==
    LET made == SecEventBuilder(b.options, h, ref)
    IN Effect([made.this EXCEPT
                  !.issuer = copyIfDefined(b.issuer, @),
                  !.audience = copyIfDefined(b.audience, @),
                  !.jti = copyIfDefined(b.jti, @),
                  !.iat = copyIfDefined(b.iat, @),
                  !.txn = copyIfDefined(b.txn, @),
                  !.events = ObjSpread(ObjOf(<<>>, Empty), b.events),
                  !.additionalClaims = b.additionalClaims,
                  !.signingKey = copyIfDefined(b.signingKey, @)],
              made.heap)

\* clone(): a builder made from this.options, then given this builder's
\* fields; its custom-claims object { ...this.additionalClaims } is `ref`
clone(b, h, ref) ==
    LET made == SecEventBuilder(b.options, h, ref)
    IN Effect([made.this EXCEPT
                  !.issuer = copyIfDefined(b.issuer, @),
                  !.audience = copyIfDefined(b.audience, @),
                  !.jti = copyIfDefined(b.jti, @),
                  !.iat = copyIfDefined(b.iat, @),
                  !.txn = copyIfDefined(b.txn, @),
                  !.events = ObjSpread(ObjOf(<<>>, Empty), b.events),
                  !.additionalClaims = ref,
                  !.signingKey = copyIfDefined(b.signingKey, @)],
              [made.heap EXCEPT ![ref] = Spread(Empty, h[b.additionalClaims])])

\* this.options.idGenerator || defaultIdGenerator
idGeneratorOf(b) ==
    IF Truthy(b.options.idGenerator) THEN b.options.idGenerator ELSE defaultIdGenerator

\* the two checks with their order exchanged
buildPayloadChecks_EventsFirst(b) ==
    IF Len(b.events.keys) = 0 THEN <<"At least one event is required">>
    ELSE IF ~Truthy(b.issuer) THEN <<"Issuer is required">>
    ELSE <<>>

\* The message of the Error the checks of buildPayload throw, as a sequence of
\* at most one message: empty when they pass.
buildPayloadChecks(b) ==
    IF ~Truthy(b.issuer) THEN <<"Issuer is required">>
    ELSE IF Len(b.events.keys) = 0 THEN <<"At least one event is required">>
    ELSE <<>>

\* a buildPayload that takes a generated jti without drawing it: the next
\* call gets the same one
buildPayload_KeepsId(b, h, nextId, now) ==
    IF buildPayloadChecks(b) # <<>>
    THEN [completion |-> Throw(Err(buildPayloadChecks(b)[1])), generated |-> FALSE]
    ELSE [completion |->
              Return(Spread([iss |-> b.issuer,
                             jti |-> IF Truthy(b.jti) THEN b.jti ELSE nextId,
                             iat |-> IF Truthy(b.iat) THEN b.iat ELSE Num(now \div 1000),
                             events |-> b.events],
                            h[b.additionalClaims])),
          generated |-> FALSE]

\* buildPayload(), given the value generate() would return next and Date.now():
\* the payload it returns or the Error it throws, and whether it called generate()
buildPayload(b, h, nextId, now) ==
    IF buildPayloadChecks(b) # <<>>
    THEN [completion |-> Throw(Err(buildPayloadChecks(b)[1])), generated |-> FALSE]
    ELSE
        LET payload ==
                Spread([iss |-> b.issuer,
                        jti |-> IF Truthy(b.jti) THEN b.jti ELSE nextId,
                        iat |-> IF Truthy(b.iat) THEN b.iat ELSE Num(now \div 1000),
                        events |-> b.events],
                       h[b.additionalClaims])
            withAud == IF Truthy(b.audience)
                       THEN Spread(payload, [aud |-> b.audience]) ELSE payload
            withTxnSet == IF Truthy(b.txn)
                          THEN Spread(withAud, [txn |-> b.txn]) ELSE withAud
        IN [completion |-> Return(withTxnSet), generated |-> ~Truthy(b.jti)]

(***************************************************************************)
(* SecEventBuilder.sign, cut at its await of the external signer.          *)
(***************************************************************************)
\* Date.prototype.toISOString, for the dates of the model
toISOString(date) ==
    IF date.ms = 0 THEN "1970-01-01T00:00:00.000Z"
    ELSE IF date.ms = 1700000 THEN "1970-01-01T00:28:20.000Z"
    ELSE "1970-01-01T00:30:00.000Z"

\* whether JSON.stringify writes a property with this value
Serialized(v) == v.t # "undefined"

RECURSIVE jsonValue(_)
\* JSON.parse(JSON.stringify(v)) of a value JSON.stringify writes: a Date
\* becomes its ISO string, an object loses the properties it does not write.
\* (The arrays of the model hold strings only.)
jsonValue(v) ==
    CASE v.t = "date" -> Str(toISOString(v))
      [] v.t = "object" /\ v.keys # <<>> ->
            ObjOf(SelectSeq(v.keys, LAMBDA k : Serialized(v.vals[k])),
                  [k \in {x \in Range(v.keys) : Serialized(v.vals[x])} |->
                      jsonValue(v.vals[k])])
      [] OTHER -> v

\* the claims a token carries: the JSON text of the claims set, parsed
jsonClaims(claims) ==
    [k \in {x \in DOMAIN claims : Serialized(claims[x])} |-> jsonValue(claims[k])]

\* jose's SignJWT.sign(key): the compact JWS over the claims, or the error
\* it raises for a value that is no key
signJwt(header, claims, key) ==
    IF key.m \in {"notakey", "thrower"}
    THEN Raise(Err("Key must be one of type KeyObject or Uint8Array."))
    ELSE [ok |-> TRUE, token |-> Token(TRUE, key.m, jsonClaims(claims))]

\* a header that always carries a kid member
protectedHeader_AlwaysKid(key) == [alg |-> key.alg, typ |-> "secevent+jwt", kid |-> key.kid]

\* { alg: key.alg, typ: 'secevent+jwt', ...(key.kid && { kid: key.kid }) }
protectedHeader(key) ==
    IF key.kid # ""
    THEN [alg |-> key.alg, typ |-> "secevent+jwt", kid |-> key.kid]
    ELSE [alg |-> key.alg, typ |-> "secevent+jwt"]

\* the claims of new SignJWT(payload) after setIssuedAt(payload.iat),
\* setIssuer(payload.iss), setJti(payload.jti) and, for a truthy payload.aud,
\* setAudience(payload.aud)
signedClaims(payload) ==
    LET set == Spread(payload, [iat |-> payload.iat, iss |-> payload.iss, jti |-> payload.jti])
    IN IF Truthy(Get(payload, "aud")) THEN Spread(set, [aud |-> payload.aud]) ELSE set

\* a sign call that has not begun
IdleSign ==
    [pc |-> "idle", signingKey |-> Undefined, key |-> Undefined, payload |-> Undefined,
     generated |-> FALSE, signerCalls |-> <<>>, completion |-> [kind |-> "none"]]

\* the checks of sign and buildPayload with their order exchanged
signChecks_PayloadFirst(b, key) ==
    IF buildPayloadChecks(b) # <<>> THEN buildPayloadChecks(b)
    ELSE IF ~Truthy(key) THEN <<"Signing key is required">>
    ELSE <<>>

\* The message of the Error sign throws before it assembles a payload, as a
\* sequence of at most one message: the check of the key, then the checks of
\* the buildPayload it calls.
signChecks(b, key) ==
    IF ~Truthy(key) THEN <<"Signing key is required">>
    ELSE buildPayloadChecks(b)

\* sign(signingKey) up to its await, given the value generate() would return
\* next and Date.now()
signBegin(b, h, signingKey, nextId, now) ==
    LET key == IF Truthy(signingKey) THEN signingKey ELSE b.signingKey
        call == [IdleSign EXCEPT !.signingKey = signingKey, !.key = key]
    IN IF signChecks(b, key) # <<>>
       THEN [call EXCEPT !.pc = "rejected",
                         !.completion = Throw(Err(signChecks(b, key)[1]))]
       ELSE LET done == buildPayload(b, h, nextId, now)
                payload == done.completion.value
            IN [call EXCEPT !.pc = "awaitSign",
                            !.payload = payload,
                            !.generated = done.generated,
                            !.signerCalls = <<[header |-> protectedHeader(key),
                                               claims |-> signedClaims(payload),
                                               key |-> key.key]>>]

\* a sign that assembles the payload it returns after its await, from the
\* builder as it then is
signResume_ReadsBuilder(call) ==
    LET invocation == call.signerCalls[1]
        outcome == signJwt(invocation.header, invocation.claims, invocation.key)
        again == buildPayload(builder, heap, call.payload.jti, clock).completion
    IN IF outcome.ok /\ again.kind = "return"
       THEN [call EXCEPT !.pc = "resolved",
                         !.completion = Return([jwt |-> outcome.token,
                                                payload |-> again.value])]
       ELSE [call EXCEPT !.pc = "rejected",
                         !.completion = IF outcome.ok THEN again ELSE Throw(outcome.error)]

\* sign after its await: the promise resolves with { jwt, payload } or is
\* rejected with the signer's error
signResume(call) ==
    LET invocation == call.signerCalls[1]
        outcome == signJwt(invocation.header, invocation.claims, invocation.key)
    IN IF outcome.ok
       THEN [call EXCEPT !.pc = "resolved",
                         !.completion = Return([jwt |-> outcome.token,
                                                payload |-> call.payload])]
       ELSE [call EXCEPT !.pc = "rejected", !.completion = Throw(outcome.error)]

(***************************************************************************)
(* The builders and the inputs of the model.                               *)
(***************************************************************************)
BuilderOptions ==
    [defaultIssuer : {Undefined, Str("https://default.issuer.com")},
     defaultAudience : {Undefined},
     idGenerator : {Undefined, PrefixedGenerator},
     signingKey : {Undefined}]

Issuers == {Str(""), Str("https://example.com")}
Audiences == {Str("https://app.example.com")}
Jtis == {Str(""), Str("custom-jti")}
Iats == {Num(0), Num(1700)}
Txns == {Str("txn-12345")}
EventInputs ==
    { Event("https://example.com/event", "first"),
      Event("https://example.com/event", "second"),
      Event("http://example.com/event", "first") }
EventLists ==
    { <<>>,
      <<Event("https://example.com/event", "first"), Event("http://example.com/event", "first")>> }
ClaimKeys == {"custom", "iss"}
ClaimValues == {Str("value")}
\* a record of custom claims named like every reserved field
reservedClaims ==
    [iss |-> Str("https://evil.example"), jti |-> Str("evil-jti"), iat |-> Num(1),
     events |-> ObjOf(<<>>, Empty), aud |-> Str("https://evil.audience"),
     txn |-> Str("evil-txn")]
ClaimRecords == {[custom |-> Str("value")], reservedClaims}

SignIds == {1}

\* no buildPayload has just completed
NotBuilt == [completion |-> [kind |-> "none"], generated |-> FALSE, at |-> 0]

(***************************************************************************)
(* Actions of the builders: `builder`, made by the constructor, and `copy`, *)
(* made by builder.clone(). A mutator returns the builder itself; the      *)
(* value of the last builder.buildPayload() is held, with the clock        *)
(* reading it was built at, until the next operation.                      *)
(***************************************************************************)
Builders == {"builder", "copy"}
\* no clone() has been called
NoBuilder == [options |-> Undefined]
BuilderOf(who) == IF who = "builder" THEN builder ELSE copy
Live == {who \in Builders : BuilderOf(who) # NoBuilder}

\* The id a builder's new custom-claims object gets: the least id of no
\* object another builder holds. (An object that no builder holds any more
\* cannot be told from a new one, so its id is used again.)
HeldByOthers(who) == {BuilderOf(other).additionalClaims : other \in Live \ {who}}
NewObject(who) ==
    LET free == ObjectIds \ HeldByOthers(who)
    IN CHOOSE ref \in free : \A other \in free : ref <= other

\* a method of builder `who` completes, leaving the builder and the heap of e
Put(who, e) ==
    /\ who \in Live
    /\ builder' = IF who = "builder" THEN e.this ELSE builder
    /\ copy' = IF who = "copy" THEN e.this ELSE copy
    /\ heap' = e.heap
    /\ built' = NotBuilt
    /\ UNCHANGED <<idCalls, clock, signing, held, parserVars, managerVars, lastEvent>>

\* a method that touches no custom-claims object
Mutate(who, b) == Put(who, Effect(b, heap))

WithIssuer(who, issuers) ==
    \E issuer \in issuers : Mutate(who, withIssuer(BuilderOf(who), issuer))
WithAudience(who, audiences) ==
    \E audience \in audiences : Mutate(who, withAudience(BuilderOf(who), audience))
WithJti(who, jtis) ==
    \E jti \in jtis : Mutate(who, withJti(BuilderOf(who), jti))
WithIat(who, iats) ==
    \E iat \in iats : Mutate(who, withIat(BuilderOf(who), iat))
WithTxn(who, txns) ==
    \E txn \in txns : Mutate(who, withTxn(BuilderOf(who), txn))
WithEvent(who, inputs) ==
    \E event \in inputs : Mutate(who, withEvent(BuilderOf(who), event))
WithEvents(who, lists) ==
    \E events \in lists : Mutate(who, withEvents(BuilderOf(who), events))
WithSigningKey(who, keys) ==
    \E key \in keys : Mutate(who, withSigningKey(BuilderOf(who), key))
WithClaim(who, keys, values) ==
    \E key \in keys, value \in values :
        Put(who, withClaim(BuilderOf(who), heap, key, value))
WithClaims(who, records) ==
    \E claims \in records :
        Put(who, withClaims(BuilderOf(who), heap, claims, NewObject(who)))
Reset(who) == Put(who, reset(BuilderOf(who), heap, NewObject(who)))

\* builder.clone() returns a new builder, which replaces the last one made
Clone ==
    LET e == clone(builder, heap, NewObject("copy"))
    IN /\ copy' = e.this
       /\ heap' = e.heap
       /\ built' = NotBuilt
       /\ UNCHANGED <<builder, idCalls, clock, signing, held, parserVars, managerVars, lastEvent>>

\* builder.sign(signingKey) is called and runs to its await or its rejection
Sign(s, keys) ==
    \E signingKey \in keys :
        LET call == signBegin(builder, heap, signingKey,
                              generate(idGeneratorOf(builder), idCalls + 1), clock)
        IN /\ signing[s].pc = "idle"
           /\ call.generated => idCalls < MaxIdCalls
           /\ signing' = [signing EXCEPT ![s] = call]
           /\ idCalls' = IF call.generated THEN idCalls + 1 ELSE idCalls
           /\ built' = NotBuilt
           /\ UNCHANGED <<builder, heap, copy, clock, held, parserVars, managerVars, lastEvent>>

\* the token sign call s has resolved with
SignedJwt(s) == signing[s].completion.value.jwt

\* parser.decode is called on the token of sign call s and completes
DecodeSigned(s) ==
    /\ signing[s].pc = "resolved"
    /\ decoded' = [jwt |-> SignedJwt(s), completion |-> decode(parser, SignedJwt(s))]
    /\ UNCHANGED <<parser, peer, calls, builderVars, managerVars, lastEvent>>

\* parser.verify is called on the token of sign call s, with a key of the
\* given set and no options
VerifySigned(c, s, keys) ==
    /\ signing[s].pc = "resolved"
    /\ calls[c].pc = "idle"
    /\ \E verificationKey \in keys :
           calls' = [calls EXCEPT ![c] = verifyBegin(parser, SignedJwt(s), verificationKey, Empty)]
    /\ UNCHANGED <<parser, peer, decoded, builderVars, managerVars, lastEvent>>

\* the signer that sign call s awaits returns or raises
SignerReturns(s) ==
    /\ signing[s].pc = "awaitSign"
    /\ signing' = [signing EXCEPT ![s] = signResume(signing[s])]
    /\ UNCHANGED <<builder, built, idCalls, clock, heap, copy, held, parserVars, managerVars, lastEvent>>

\* builder.buildPayload() is called and completes
BuildPayload ==
    LET done == buildPayload(builder, heap, generate(idGeneratorOf(builder), idCalls + 1),
                             clock)
    IN /\ done.generated => idCalls < MaxIdCalls
       /\ built' = [completion |-> done.completion, generated |-> done.generated,
                    at |-> clock]
       /\ idCalls' = IF done.generated THEN idCalls + 1 ELSE idCalls
       /\ UNCHANGED <<builder, clock, heap, copy, signing, held, parserVars, managerVars, lastEvent>>

\* builder.buildPayload() is called and returns a payload, which the caller
\* keeps: the payload, and whether its jti was drawn from the generator
BuildAndHold ==
    LET done == buildPayload(builder, heap, generate(idGeneratorOf(builder), idCalls + 1),
                             clock)
    IN /\ done.completion.kind = "return"
       /\ Len(held) < MaxHeld
       /\ held' = Append(held, [payload |-> done.completion.value,
                                generated |-> done.generated])
       /\ built' = [completion |-> done.completion, generated |-> done.generated,
                    at |-> clock]
       /\ idCalls' = IF done.generated THEN idCalls + 1 ELSE idCalls
       /\ UNCHANGED <<builder, clock, heap, copy, signing, parserVars, managerVars, lastEvent>>

\* a millisecond passes
Tick ==
    /\ clock < StartClock + MaxTicks
    /\ clock' = clock + 1
    /\ UNCHANGED <<builder, built, idCalls, heap, copy, signing, held,
                 parserVars, managerVars, lastEvent>>

(***************************************************************************)
(* KeyManager. Its Map is the sequence of its entries in the order a Map   *)
(* iterates them. A SigningKey is an object, held by reference: the entry  *)
(* of the Map and the caller hold ids of objects in keyObjects, so that    *)
(* who shares an object with whom is part of the state.                    *)
(***************************************************************************)
CallerObjects == {0}
ManagerObjects == {1, 2, 3}
\* the slot of an object nobody holds
NoObject == Null

\* Map.prototype.has / get
MapHas(entries, k) == \E i \in DOMAIN entries : entries[i].kid = k
MapGet(entries, k) ==
    IF MapHas(entries, k)
    THEN entries[CHOOSE i \in DOMAIN entries : entries[i].kid = k].ref
    ELSE Undefined

\* a set that moves an existing key to the end
MapSet_MovesToEnd(entries, k, ref) ==
    Append(SelectSeq(entries, LAMBDA e : e.kid # k), [kid |-> k, ref |-> ref])

\* Map.prototype.set: a present key keeps its position, a new key goes last
MapSet(entries, k, ref) ==
    IF MapHas(entries, k)
    THEN [i \in DOMAIN entries |->
             IF entries[i].kid = k THEN [kid |-> k, ref |-> ref] ELSE entries[i]]
    ELSE Append(entries, [kid |-> k, ref |-> ref])

\* Map.prototype.delete: the entries left
MapDelete(entries, k) == SelectSeq(entries, LAMBDA e : e.kid # k)

\* an addKey that tags the caller's object and stores it
addKey_StoresCallerObject(entries, objects, kid, ref, new) ==
    [keys |-> MapSet(entries, kid, ref),
     objects |-> [objects EXCEPT ![ref] = [@ EXCEPT !.kid = kid]]]

\* addKey(kid, key): this.keys.set(kid, { ...key, kid }); `ref` is the
\* caller's object and `new` the object the spread creates
addKey(entries, objects, kid, ref, new) ==
    [keys |-> MapSet(entries, kid, new),
     objects |-> [objects EXCEPT ![new] = [objects[ref] EXCEPT !.kid = kid]]]

\* getKey(kid): the stored object, or undefined
getKey(entries, objects, kid) ==
    IF MapHas(entries, kid) THEN objects[MapGet(entries, kid)] ELSE Undefined

\* getAllKeys(): Array.from(this.keys.values())
getAllKeys(entries, objects) == Arr([i \in DOMAIN entries |-> objects[entries[i].ref]])

\* a removeKey that reports a removal whatever it found
removeKey_ReportsTrue(entries, kid) ==
    [keys |-> MapDelete(entries, kid), returned |-> TRUE]

\* removeKey(kid): this.keys.delete(kid)
removeKey(entries, kid) ==
    [keys |-> MapDelete(entries, kid), returned |-> MapHas(entries, kid)]

\* getDefaultKey(): the first value the Map iterates, or undefined
getDefaultKey(entries, objects) ==
    IF Len(entries) = 0 THEN Undefined ELSE objects[entries[1].ref]

\* the ids under which the caller adds, gets and removes keys
Kids == {"k1", "k2"}
\* the values the caller gives the fields of its key object ("": no kid)
CallerKids == {"", "k1", "other"}
Algorithms == {"HS256", "RS256"}
Secrets == {"secret1", "secret2"}

\* no KeyManager call has been made
NoAnswer == [op |-> "none", value |-> Undefined]

\* the object a new copy is made in: one that no entry refers to
NewKeyObject ==
    CHOOSE id \in ManagerObjects :
        /\ \A i \in DOMAIN keyManager : keyManager[i].ref # id
        /\ \A other \in ManagerObjects :
               (\A i \in DOMAIN keyManager : keyManager[i].ref # other) => id <= other

\* the objects, those of the KeyManager that no entry refers to being gone
Collected(entries, objects) ==
    [id \in DOMAIN objects |->
        IF id \in CallerObjects \/ \E i \in DOMAIN entries : entries[i].ref = id
        THEN objects[id] ELSE NoObject]

(***************************************************************************)
(* Actions of the KeyManager and of its caller.                            *)
(***************************************************************************)
\* manager.addKey(kid, key), key being the caller's object `ref`
AddKey(kid, ref) ==
    LET e == addKey(keyManager, keyObjects, kid, ref, NewKeyObject)
    IN /\ keyManager' = e.keys
       /\ keyObjects' = Collected(e.keys, e.objects)
       /\ answer' = [op |-> "addKey", value |-> Undefined]
       /\ UNCHANGED <<parserVars, builderVars, lastEvent>>

\* the caller assigns a field of its own key object
CallerWrites(ref) ==
    /\ \E kid \in CallerKids, alg \in Algorithms, secret \in Secrets :
           /\ [keyObjects[ref] EXCEPT !.kid = kid, !.alg = alg, !.key = Material(secret)]
                  # keyObjects[ref]
           /\ keyObjects' = [keyObjects EXCEPT ![ref] =
                                [@ EXCEPT !.kid = kid, !.alg = alg, !.key = Material(secret)]]
    /\ UNCHANGED <<keyManager, answer, parserVars, builderVars, lastEvent>>

GetKey(kid) ==
    /\ answer' = [op |-> "getKey", value |-> getKey(keyManager, keyObjects, kid)]
    /\ UNCHANGED <<keyManager, keyObjects, parserVars, builderVars, lastEvent>>

GetAllKeys ==
    /\ answer' = [op |-> "getAllKeys", value |-> getAllKeys(keyManager, keyObjects)]
    /\ UNCHANGED <<keyManager, keyObjects, parserVars, builderVars, lastEvent>>

GetDefaultKey ==
    /\ answer' = [op |-> "getDefaultKey", value |-> getDefaultKey(keyManager, keyObjects)]
    /\ UNCHANGED <<keyManager, keyObjects, parserVars, builderVars, lastEvent>>

RemoveKey(kid) ==
    LET e == removeKey(keyManager, kid)
    IN /\ keyManager' = e.keys
       /\ keyObjects' = Collected(e.keys, keyObjects)
       /\ answer' = [op |-> "removeKey", value |-> Bool(e.returned)]
       /\ UNCHANGED <<parserVars, builderVars, lastEvent>>

\* manager.clear()
Clear ==
    /\ keyManager' = <<>>
    /\ keyObjects' = Collected(<<>>, keyObjects)
    /\ answer' = [op |-> "clear", value |-> Undefined]
    /\ UNCHANGED <<parserVars, builderVars, lastEvent>>

\* new KeyManager(), and the key object the caller holds
InitKeyManager ==
    /\ keyManager = <<>>
    /\ keyObjects = [id \in CallerObjects \cup ManagerObjects |->
                        IF id \in CallerObjects THEN SigningKey("other", "secret1")
                        ELSE NoObject]
    /\ answer = NoAnswer

(***************************************************************************)
(* The Events factories. An argument the caller omits is undefined.        *)
(***************************************************************************)
\* an object literal with the given keys, in order
Literal(keys, vals) == ObjOf(keys, [k \in Range(keys) |-> vals[k]])
\* { [k]: v }
One(k, v) == ObjOf(<<k>>, [x \in {k} |-> v])
\* ...options in an object literal: nothing for undefined
Spreadable(options) == IF options = Undefined THEN ObjOf(<<>>, Empty) ELSE options

SESSION_REVOKED == "https://schemas.openid.net/secevent/caep/event-type/session-revoked"
TOKEN_CLAIMS_CHANGE == "https://schemas.openid.net/secevent/caep/event-type/token-claims-change"
CREDENTIAL_CHANGE == "https://schemas.openid.net/secevent/caep/event-type/credential-change"
ASSURANCE_LEVEL_CHANGE ==
    "https://schemas.openid.net/secevent/caep/event-type/assurance-level-change"
DEVICE_COMPLIANCE_CHANGE ==
    "https://schemas.openid.net/secevent/caep/event-type/device-compliance-change"
STREAM_UPDATED == "https://schemas.openid.net/secevent/ssf/event-type/stream-updated"
VERIFICATION == "https://schemas.openid.net/secevent/ssf/event-type/verification"

sessionRevoked(subject, timestamp, reason) ==
    One(SESSION_REVOKED,
        Literal(<<"subject", "event_timestamp", "reason">>,
                [subject |-> subject, event_timestamp |-> timestamp, reason |-> reason]))

tokenClaimsChange(subject, timestamp, claims) ==
    One(TOKEN_CLAIMS_CHANGE,
        Literal(<<"subject", "event_timestamp", "claims">>,
                [subject |-> subject, event_timestamp |-> timestamp, claims |-> claims]))

\* { subject, event_timestamp: timestamp, ...options }
withOptions(subject, timestamp, options) ==
    ObjSpread(Literal(<<"subject", "event_timestamp">>,
                      [subject |-> subject, event_timestamp |-> timestamp]),
              Spreadable(options))

credentialChange(subject, timestamp, options) ==
    One(CREDENTIAL_CHANGE, withOptions(subject, timestamp, options))

assuranceLevelChange(subject, timestamp, options) ==
    One(ASSURANCE_LEVEL_CHANGE, withOptions(subject, timestamp, options))

deviceComplianceChange(subject, timestamp, options) ==
    One(DEVICE_COMPLIANCE_CHANGE, withOptions(subject, timestamp, options))

streamUpdated(effectiveTime) ==
    One(STREAM_UPDATED, Literal(<<"effective_time">>, [effective_time |-> effectiveTime]))

verification(state) ==
    One(VERIFICATION, Literal(<<"state">>, [state |-> state]))

\* the arguments the factories are called with
Subjects ==
    { Literal(<<"format", "email">>, [format |-> Str("email"), email |-> Str("user@example.com")]),
      Literal(<<"format", "id">>, [format |-> Str("opaque"), id |-> Str("user-1")]),
      Literal(<<"format", "iss", "sub">>,
              [format |-> Str("iss_sub"), iss |-> Str("https://example.com"),
               sub |-> Str("user123")]) }
Timestamps == {Num(1700), Num(1800)}
\* options that themselves hold a subject or an event_timestamp: the type of
\* the options parameter is Partial of the whole event
OptionsSubject == Literal(<<"format", "id">>, [format |-> Str("opaque"), id |-> Str("someone-else")])
OptionsWithSubject(field, value) ==
    Literal(<<"subject", field>>, [k \in {"subject", field} |->
                                      IF k = "subject" THEN OptionsSubject ELSE value])
OptionsWithTimestamp == One("event_timestamp", Num(1))
Reasons == {Undefined, Str("policy")}
ChangedClaims == {Undefined, One("role", Str("admin"))}
CredentialOptions ==
    { Undefined,
      ObjOf(<<>>, Empty),
      One("credential_type", Str("password")),
      Literal(<<"credential_type", "change_type">>,
              [credential_type |-> Str("password"), change_type |-> Str("update")]),
      One("reason", Str("expired")),
      OptionsWithSubject("credential_type", Str("password")),
      OptionsWithTimestamp }
AssuranceOptions ==
    { Undefined,
      ObjOf(<<>>, Empty),
      One("current_level", Str("nist-aal2")),
      Literal(<<"current_level", "previous_level">>,
              [current_level |-> Str("nist-aal2"), previous_level |-> Str("nist-aal1")]),
      One("change_direction", Str("increase")),
      OptionsWithSubject("current_level", Str("nist-aal2")),
      OptionsWithTimestamp }
DeviceOptions ==
    { Undefined,
      ObjOf(<<>>, Empty),
      One("current_status", Str("compliant")),
      Literal(<<"current_status", "previous_status">>,
              [current_status |-> Str("compliant"), previous_status |-> Str("not_compliant")]),
      One("previous_status", Str("compliant")),
      OptionsWithSubject("current_status", Str("compliant")),
      OptionsWithTimestamp }
EffectiveTimes == {Undefined, Num(1700)}
VerificationStates == {Undefined, Str("state-1")}

\* no factory has been called
NothingMade == [event |-> Undefined, args |-> <<>>, factory |-> "none"]
Made(factory, args, event) == [event |-> event, args |-> args, factory |-> factory]

(***************************************************************************)
(* Actions of the Events factories.                                        *)
(***************************************************************************)
\* a factory returns its event
Makes(m) == lastEvent' = m
\* a call of a factory changes nothing else
FactoryOnly == UNCHANGED <<parserVars, builderVars, managerVars>>

SessionRevoked ==
    \E subject \in Subjects, timestamp \in Timestamps, reason \in Reasons :
        /\ Makes(Made("sessionRevoked", <<subject, timestamp, reason>>,
                      sessionRevoked(subject, timestamp, reason)))
        /\ FactoryOnly
TokenClaimsChange ==
    \E subject \in Subjects, timestamp \in Timestamps, claims \in ChangedClaims :
        /\ Makes(Made("tokenClaimsChange", <<subject, timestamp, claims>>,
                      tokenClaimsChange(subject, timestamp, claims)))
        /\ FactoryOnly
CredentialChange ==
    \E subject \in Subjects, timestamp \in Timestamps, options \in CredentialOptions :
        /\ Makes(Made("credentialChange", <<subject, timestamp, options>>,
                      credentialChange(subject, timestamp, options)))
        /\ FactoryOnly
AssuranceLevelChange ==
    \E subject \in Subjects, timestamp \in Timestamps, options \in AssuranceOptions :
        /\ Makes(Made("assuranceLevelChange", <<subject, timestamp, options>>,
                      assuranceLevelChange(subject, timestamp, options)))
        /\ FactoryOnly
DeviceComplianceChange ==
    \E subject \in Subjects, timestamp \in Timestamps, options \in DeviceOptions :
        /\ Makes(Made("deviceComplianceChange", <<subject, timestamp, options>>,
                      deviceComplianceChange(subject, timestamp, options)))
        /\ FactoryOnly
StreamUpdated ==
    \E effectiveTime \in EffectiveTimes :
        /\ Makes(Made("streamUpdated", <<effectiveTime>>, streamUpdated(effectiveTime)))
        /\ FactoryOnly
Verification ==
    \E state \in VerificationStates :
        /\ Makes(Made("verification", <<state>>, verification(state)))
        /\ FactoryOnly

InitEvents == lastEvent = NothingMade

(***************************************************************************)
(* Specifications.                                                         *)
(***************************************************************************)
\* no second parser has been created
NoParser == [options |-> Undefined]

\* createParser(options), for options of the given set
InitParser(optionSet) ==
    /\ parser \in {SecEventParser(options) : options \in optionSet}
    /\ calls = [c \in CallIds |-> IdleCall]
    /\ decoded = NotDecoded
    /\ peer = NoParser

\* createParser()
NoParserOptions ==
    [jwksUrl |-> Undefined, verificationKeys |-> Undefined,
     defaultValidationOptions |-> Empty]

\* createBuilder(options), for options of the given set
InitBuilder(optionSet) ==
    /\ \E options \in optionSet :
          LET e == SecEventBuilder(options, EmptyHeap, 1)
          IN builder = e.this /\ heap = e.heap
    /\ copy = NoBuilder
    /\ built = NotBuilt
    /\ signing = [s \in SignIds |-> IdleSign]
    /\ held = <<>>
    /\ idCalls = 0
    /\ clock = StartClock

\* createBuilder()
NoOptions ==
    [defaultIssuer |-> Undefined, defaultAudience |-> Undefined,
     idGenerator |-> Undefined, signingKey |-> Undefined]

\* the parser alone: one builder, left untouched
VerifyInit ==
    /\ InitParser(ParserOptions)
    /\ InitBuilder({NoOptions})
    /\ InitKeyManager
    /\ InitEvents

VerifyNext == \E c \in CallIds : Verify(c) \/ VerifierReturns(c)

SpecVerify == VerifyInit /\ [][VerifyNext]_vars

\* the parser with a verifier that answers every call made to it: the
\* jwtVerify a call awaits eventually returns or raises
VerifierAnswers == \A c \in CallIds : WF_vars(VerifierReturns(c))

\* the calls made to that parser: with no key, or with a list of keys the
\* verifier accepts, rejects, or fails on
FairTokens ==
    { Token(TRUE, "secret1", payloadValid),
      Token(TRUE, "secret1", payloadInvalid),
      Token(FALSE, "secret1", payloadValid) }
FairKeyArguments == {Undefined} \cup {Arr(l) : l \in SeqsUpTo({keyA, keyW, keyT}, MaxKeys)}
FairOptionSets == {Empty, [issuer |-> Str("https://other.com")]}

FairNext ==
    \E c \in CallIds :
        \/ VerifyWith(c, FairTokens, FairKeyArguments, FairOptionSets)
        \/ VerifierReturns(c)

SpecVerifyFair == VerifyInit /\ [][FairNext]_vars /\ VerifierAnswers

\* decode alone, on a parser without configuration and on a configured one
DecodeParserOptions ==
    { NoParserOptions,
      [jwksUrl |-> Str(JwksUrl), verificationKeys |-> Arr(<<keyW, keyA>>),
       defaultValidationOptions |-> [issuer |-> Str("https://example.com")]] }

DecodeInit ==
    /\ InitParser(DecodeParserOptions)
    /\ InitBuilder({NoOptions})
    /\ InitKeyManager
    /\ InitEvents

SpecDecode == DecodeInit /\ [][Decode]_vars

\* Successive verify calls on parsers with and without default validation
\* options, each call with options of its own.
allDefaults ==
    [issuer |-> Str("https://example.com"), audience |-> Str("https://app.example.com"),
     clockTolerance |-> Num(5), currentDate |-> Date(1700000),
     requiredClaims |-> Arr(<<"jti">>), maxTokenAge |-> Num(60)]
MergeParserOptions ==
    [jwksUrl : {Undefined, Str(JwksUrl)},
     verificationKeys : {Undefined},
     defaultValidationOptions : {Empty, [issuer |-> Str("https://example.com")], allDefaults}]
MergeOptionSets ==
    { Empty,
      [issuer |-> Str("https://other.com")],
      [issuer |-> Undefined, audience |-> Str("https://other.audience.com")],
      [clockTolerance |-> Num(0), currentDate |-> Date(1800000)],
      [maxTokenAge |-> Num(0)],
      [requiredClaims |-> Arr(<<"txn">>), maxTokenAge |-> Num(3600)] }
payloadWithAudience ==
    [iss |-> Str("https://example.com"), aud |-> Str("https://app.example.com"),
     jti |-> Str("test-aud"), iat |-> Num(1700),
     events |-> Obj(<<"https://example.com/event">>)]
MergeTokens == {Token(TRUE, "secret1", payloadValid), Token(TRUE, "secret1", payloadWithAudience)}

\* inputs of the builder calls and the key arguments that several
\* specifications below use
ExampleIssuers == {Str("https://example.com")}
CustomJtis == {Str("custom-jti")}
FixedIats == {Num(1700)}
ReplacementKeys == {keyW}
FirstEvents == {Event("https://example.com/event", "first")}
SecondEvents == {Event("https://example.com/event", "second")}
CloneEventLists ==
    {<<Event("https://example.com/event", "first"), Event("https://example.com/event", "second")>>}
HoldEventLists ==
    {<<Event("https://example.com/event", "first"), Event("http://example.com/event", "first")>>}
CustomKeys == {"custom"}
CustomRecords == {[custom |-> Str("value")]}
MergeKeyArguments == {keyA, keyW, keyN, Arr(<<keyW, keyA>>)}
OverlapKeyArguments == {Undefined, keyB}
RoundTripSignKeys == {keyA}
RoundTripVerifyKeys == {keyA, keyW, keyN}

MergeInit ==
    /\ InitParser(MergeParserOptions)
    /\ InitBuilder({NoOptions})
    /\ InitKeyManager
    /\ InitEvents

MergeNext ==
    \E c \in CallIds :
        \/ VerifyWith(c, MergeTokens, MergeKeyArguments, MergeOptionSets)
        \/ VerifierReturns(c)

SpecMerge == MergeInit /\ [][MergeNext]_vars

\* Concurrent verify calls: two calls on one parser and a third on another
\* parser, begun in any order and resumed in any order, each again once it
\* has returned.
ConcurrentParserOptions ==
    { [jwksUrl |-> Undefined, verificationKeys |-> Arr(<<keyW, keyA>>),
       defaultValidationOptions |-> Empty],
      [jwksUrl |-> Str(JwksUrl), verificationKeys |-> Undefined,
       defaultValidationOptions |-> [issuer |-> Str("https://example.com")]] }
PeerOptions ==
    [jwksUrl |-> Undefined, verificationKeys |-> Arr(<<keyN, keyB>>),
     defaultValidationOptions |-> [requiredClaims |-> Arr(<<"txn">>)]]
ConcurrentTokens == {Token(TRUE, "secret1", payloadValid), Token(TRUE, "secret2", payloadNoEvents)}
ConcurrentKeyArguments == {Undefined, keyW, Arr(<<keyT, keyA>>)}
ConcurrentOptionSets == {Empty, [issuer |-> Str("https://other.com")]}

ConcurrentInit ==
    /\ parser \in {SecEventParser(options) : options \in ConcurrentParserOptions}
    /\ peer = SecEventParser(PeerOptions)
    /\ calls = [c \in ConcurrentCallIds |-> IdleCall]
    /\ decoded = NotDecoded
    /\ InitBuilder({NoOptions})
    /\ InitKeyManager
    /\ InitEvents

ConcurrentNext ==
    \E c \in ConcurrentCallIds :
        \/ VerifyWith(c, ConcurrentTokens, ConcurrentKeyArguments, ConcurrentOptionSets)
        \/ VerifierReturns(c)

SpecConcurrent == ConcurrentInit /\ [][ConcurrentNext]_vars

\* the builder alone: one parser, left untouched
BuilderInit ==
    /\ InitBuilder(BuilderOptions)
    /\ InitParser({NoParserOptions})
    /\ InitKeyManager
    /\ InitEvents

BuilderNext ==
    \/ WithIssuer("builder", Issuers)
    \/ WithAudience("builder", Audiences)
    \/ WithJti("builder", Jtis)
    \/ WithIat("builder", Iats)
    \/ WithTxn("builder", Txns)
    \/ WithEvent("builder", EventInputs)
    \/ WithEvents("builder", EventLists)
    \/ WithClaim("builder", ClaimKeys, ClaimValues)
    \/ WithClaims("builder", ClaimRecords)
    \/ BuildPayload
    \/ Tick

SpecBuilder == BuilderInit /\ [][BuilderNext]_vars

\* the whole life of one builder: every mutator, buildPayload and reset, on
\* builders with and without configured defaults
LifecycleOptions ==
    { NoOptions,
      [defaultIssuer |-> Str("https://default.issuer.com"),
       defaultAudience |-> Arr(<<"https://default.audience.com">>),
       idGenerator |-> Undefined,
       signingKey |-> keyA] }

LifecycleInit ==
    /\ InitBuilder(LifecycleOptions)
    /\ InitParser({NoParserOptions})
    /\ InitKeyManager
    /\ InitEvents

LifecycleNext ==
    \/ WithIssuer("builder", ExampleIssuers)
    \/ WithAudience("builder", Audiences)
    \/ WithJti("builder", CustomJtis)
    \/ WithIat("builder", FixedIats)
    \/ WithTxn("builder", Txns)
    \/ WithEvent("builder", EventInputs)
    \/ WithEvents("builder", EventLists)
    \/ WithClaim("builder", ClaimKeys, ClaimValues)
    \/ WithClaims("builder", ClaimRecords)
    \/ WithSigningKey("builder", ReplacementKeys)
    \/ Reset("builder")
    \/ BuildPayload

SpecLifecycle == LifecycleInit /\ [][LifecycleNext]_vars

\* a builder and its clone: mutators of the string fields and of the two
\* collections, and reset, on either of them, in any order
CloneOptions ==
    { [defaultIssuer |-> Str("https://default.issuer.com"), defaultAudience |-> Undefined,
       idGenerator |-> Undefined, signingKey |-> Undefined] }

CloneInit ==
    /\ InitBuilder(CloneOptions)
    /\ InitParser({NoParserOptions})
    /\ InitKeyManager
    /\ InitEvents

\* a mutator or reset of the builder `who`
CloneActs(who) ==
    \/ WithIssuer(who, ExampleIssuers)
    \/ WithAudience(who, Audiences)
    \/ WithJti(who, Jtis)
    \/ WithTxn(who, Txns)
    \/ WithEvent(who, SecondEvents)
    \/ WithEvents(who, CloneEventLists)
    \/ WithClaim(who, CustomKeys, ClaimValues)
    \/ WithClaims(who, CustomRecords)
    \/ Reset(who)

CloneNext ==
    \/ Clone
    \/ \E who \in Builders : CloneActs(who)

SpecClone == CloneInit /\ [][CloneNext]_vars

\* A caller that keeps the payloads buildPayload returns, and goes on using
\* the builder.
HoldOptions ==
    { [defaultIssuer |-> Str("https://default.issuer.com"), defaultAudience |-> Undefined,
       idGenerator |-> Undefined, signingKey |-> Undefined] }

HoldInit ==
    /\ InitBuilder(HoldOptions)
    /\ InitParser({NoParserOptions})
    /\ InitKeyManager
    /\ InitEvents

HoldNext ==
    \/ WithJti("builder", CustomJtis)
    \/ WithEvent("builder", FirstEvents)
    \/ WithEvents("builder", HoldEventLists)
    \/ WithClaim("builder", CustomKeys, ClaimValues)
    \/ WithClaims("builder", CustomRecords)
    \/ Reset("builder")
    \/ Clone
    \/ BuildAndHold

SpecHold == HoldInit /\ [][HoldNext]_vars

\* Overlapping sign calls on one builder, which is changed and reset while
\* the signer is at work.
OverlapSignIds == {1, 2}
OverlapOptions ==
    { [defaultIssuer |-> Str("https://default.issuer.com"), defaultAudience |-> Undefined,
       idGenerator |-> Undefined, signingKey |-> keyA] }

OverlapInit ==
    /\ \E options \in OverlapOptions :
          LET e == SecEventBuilder(options, EmptyHeap, 1)
          IN builder = e.this /\ heap = e.heap
    /\ copy = NoBuilder
    /\ built = NotBuilt
    /\ signing = [s \in OverlapSignIds |-> IdleSign]
    /\ held = <<>>
    /\ idCalls = 0
    /\ clock = StartClock
    /\ InitParser({NoParserOptions})
    /\ InitKeyManager
    /\ InitEvents

OverlapNext ==
    \/ WithJti("builder", CustomJtis)
    \/ WithEvent("builder", FirstEvents)
    \/ WithClaim("builder", CustomKeys, ClaimValues)
    \/ WithSigningKey("builder", ReplacementKeys)
    \/ Reset("builder")
    \/ \E s \in OverlapSignIds : Sign(s, OverlapKeyArguments) \/ SignerReturns(s)

SpecOverlap == OverlapInit /\ [][OverlapNext]_vars

\* sign on one builder: builders with and without a configured key and issuer
SignOptions ==
    [defaultIssuer : {Undefined, Str("https://default.issuer.com")},
     defaultAudience : {Undefined},
     idGenerator : {Undefined},
     signingKey : {Undefined, keyA}]
\* a key without a kid, for another algorithm
keyNoKid == [SigningKey("", "secret1") EXCEPT !.alg = "HS512"]
SignKeyArguments == {Undefined, keyB, keyN, keyNoKid}

SignInit ==
    /\ InitBuilder(SignOptions)
    /\ InitParser({NoParserOptions})
    /\ InitKeyManager
    /\ InitEvents

SignNext ==
    \/ WithIssuer("builder", Issuers)
    \/ WithEvent("builder", EventInputs)
    \/ WithSigningKey("builder", ReplacementKeys)
    \/ WithClaim("builder", CustomKeys, ClaimValues)
    \/ \E s \in SignIds : Sign(s, SignKeyArguments) \/ SignerReturns(s)
    \/ Tick

SpecSign == SignInit /\ [][SignNext]_vars

\* A round trip: a builder is set up, signs, and the token is given to
\* decode and to verify of a parser without configuration.
RoundTripAudiences ==
    {Str("https://app.example.com"), Arr(<<"https://app.example.com", "https://api.example.com">>)}
RoundTripEvents ==
    { Event("https://example.com/event", "first"),
      Event("not-a-url", "first"),
      verification(Undefined) }
RoundTripClaimValues == {Str("value"), Date(0)}

RoundTripInit ==
    /\ InitBuilder({NoOptions})
    /\ InitParser({NoParserOptions})
    /\ InitKeyManager
    /\ InitEvents

\* the calls that set the builder up, before it signs
RoundTripSetup ==
    /\ \A s \in SignIds : signing[s].pc = "idle"
    /\ \/ WithIssuer("builder", ExampleIssuers)
       \/ WithAudience("builder", RoundTripAudiences)
       \/ WithJti("builder", CustomJtis)
       \/ WithEvent("builder", RoundTripEvents)
       \/ WithClaim("builder", CustomKeys, RoundTripClaimValues)

RoundTripNext ==
    \/ RoundTripSetup
    \/ \E s \in SignIds : Sign(s, RoundTripSignKeys) \/ SignerReturns(s) \/ DecodeSigned(s)
    \/ \E c \in CallIds, s \in SignIds : VerifySigned(c, s, RoundTripVerifyKeys)
    \/ \E c \in CallIds : VerifierReturns(c)

SpecRoundTrip == RoundTripInit /\ [][RoundTripNext]_vars

\* a KeyManager and the caller's key object
KeyManagerInit ==
    /\ InitKeyManager
    /\ InitEvents
    /\ InitParser({NoParserOptions})
    /\ InitBuilder({NoOptions})

KeyManagerNext ==
    \/ \E kid \in Kids, ref \in CallerObjects : AddKey(kid, ref)
    \/ \E ref \in CallerObjects : CallerWrites(ref)
    \/ \E kid \in Kids : GetKey(kid)
    \/ GetAllKeys
    \/ GetDefaultKey
    \/ \E kid \in Kids : RemoveKey(kid)
    \/ Clear

SpecKeyManager == KeyManagerInit /\ [][KeyManagerNext]_vars

\* the Events factories
EventsInit ==
    /\ InitEvents
    /\ InitKeyManager
    /\ InitParser({NoParserOptions})
    /\ InitBuilder({NoOptions})

EventsNext ==
    \/ SessionRevoked
    \/ TokenClaimsChange
    \/ CredentialChange
    \/ AssuranceLevelChange
    \/ DeviceComplianceChange
    \/ StreamUpdated
    \/ Verification

SpecEvents == EventsInit /\ [][EventsNext]_vars

(***************************************************************************)
(* Properties of SecEventParser.verify.                                    *)
(***************************************************************************)
\* the calls that have begun
Begun == {c \in CallIds : calls[c].pc # "idle"}
\* the calls that have completed by returning
Returned == {c \in CallIds : calls[c].pc = "returned"}

\* what the verifier answers to its i-th invocation by a call
OutcomeOf(call, i) ==
    jwtVerify(call.verifierCalls[i].jwt, call.verifierCalls[i].key,
              call.verifierCalls[i].options)

\* the message verify reports for a raised value
MessageOf(error) == IF error.t = "Error" THEN error.message ELSE "Unknown error"

\* the key material of a list of keys
MaterialOf(keyList) == [i \in DOMAIN keyList |-> keyList[i].key]

\* the call runs the candidate-key loop: no remote key set, a list of keys
UsesKeyList(call) == ~Truthy(parser.jwks) /\ Truthy(call.keys)

\* the verifier's answer to candidate key i of the call
CandidateOutcome(call, i) == jwtVerify(call.jwt, call.keys.items[i].key, call.jwtOptions)

\* C1: verify selects its key source in priority order: the explicit key
\* argument whenever one is passed, else the configured verificationKeys, else
\* the remote key set; the verifier is never invoked with the remote key set
\* when a key argument is passed. (Stated on the cases where the source is
\* beyond doubt: an explicit key or non-empty list; no argument and a
\* non-empty configured list; no argument and no configured list.)
C1_KeySourcePriority ==
    \A c \in Begun :
        \A i \in DOMAIN calls[c].verifierCalls :
            LET used == calls[c].verifierCalls[i].key
                explicit == calls[c].verificationKey
                configured == parser.options.verificationKeys
            IN /\ (explicit \in Keys) => used = explicit.key
               /\ (IsArray(explicit) /\ explicit.items # <<>>) =>
                      used \in Range(MaterialOf(explicit.items))
               /\ (explicit = Undefined /\ IsArray(configured) /\ configured.items # <<>>) =>
                      used \in Range(MaterialOf(configured.items))
               /\ (explicit = Undefined /\ configured = Undefined) => used = parser.jwks

\* C2: verify never throws or rejects: every call that completes returns a
\* ValidationResult, and an error raised by the verifier is reported as
\* {valid: false, error: message}.
C2_VerifyNeverThrows ==
    \A c \in CallIds :
        LET call == calls[c]
            n == Len(call.verifierCalls)
        IN /\ call.pc # "rejected"
           /\ call.pc = "returned" =>
                /\ "valid" \in DOMAIN call.result
                /\ DOMAIN call.result \subseteq {"valid", "payload", "error", "errors"}
                /\ call.result.valid \in BOOLEAN
                /\ (n > 0 /\ ~OutcomeOf(call, n).ok) =>
                       call.result = [valid |-> FALSE,
                                      error |-> MessageOf(OutcomeOf(call, n).error)]

\* a call returned after the verifier raised a value that is not an Error
C2_Witness ==
    \E c \in Returned :
        /\ Len(calls[c].verifierCalls) > 0
        /\ OutcomeOf(calls[c], Len(calls[c].verifierCalls)) = Raise(Str("String error"))
        /\ calls[c].result.error = "Unknown error"

C4_KeysInOrder ==
    \A c \in Begun :
        LET call == calls[c]
            n == Len(call.verifierCalls)
        IN UsesKeyList(call) =>
             /\ n <= Len(call.keys.items)
             /\ \A i \in 1..n : call.verifierCalls[i].key = call.keys.items[i].key
             /\ \A i \in 1..(n - 1) : ~OutcomeOf(call, i).ok
             /\ call.pc = "awaitKey" => call.idx = n
             /\ call.pc = "returned" => (n = Len(call.keys.items) \/ OutcomeOf(call, n).ok)

\* the first key of a longer list was accepted and the keys after it were not tried
C4_Witness ==
    \E c \in Returned :
        /\ UsesKeyList(calls[c])
        /\ Len(calls[c].keys.items) = MaxKeys
        /\ Len(calls[c].verifierCalls) = 1
        /\ calls[c].result.valid

\* C5: when the verifier rejects every candidate key, verify returns
\* valid: false with the message of the error raised for the last key, and no
\* errors list; with an empty candidate list the message is the generic one.
C5_LastErrorReported ==
    \A c \in Returned :
        LET call == calls[c]
            keys == call.keys.items
        IN (UsesKeyList(call) /\ \A i \in DOMAIN keys : ~CandidateOutcome(call, i).ok) =>
             call.result =
                 [valid |-> FALSE,
                  error |-> IF Len(keys) = 0 THEN "Verification failed with all provided keys"
                            ELSE MessageOf(CandidateOutcome(call, Len(keys)).error)]

\* two keys were rejected with different errors and the second one is reported
C5_Witness ==
    \E c \in Returned :
        /\ UsesKeyList(calls[c])
        /\ Len(calls[c].keys.items) = 2
        /\ CandidateOutcome(calls[c], 1) = Raise(Err("signature verification failed"))
        /\ CandidateOutcome(calls[c], 2) =
               Raise(Err("Key must be one of type KeyObject or Uint8Array."))
        /\ calls[c].result.error = "Key must be one of type KeyObject or Uint8Array."

\* the positions of a key list whose key the verifier accepts for the call
Accepted(call, keyList) ==
    {i \in DOMAIN keyList : jwtVerify(call.jwt, keyList[i].key, call.jwtOptions).ok}
\* the least element of a non-empty set of positions
Least(S) == CHOOSE i \in S : \A j \in S : i <= j

\* C6: verify with a key list that holds an accepted key returns the same
\* ValidationResult as verify with the first accepted key of the list alone.
C6_ListEqualsFirstAccepted ==
    \A c \in Returned :
        LET call == calls[c]
            keyList == call.verificationKey.items
        IN (IsArray(call.verificationKey) /\ Accepted(call, keyList) # {}) =>
             LET alone == verify(parser, call.jwt, keyList[Least(Accepted(call, keyList))],
                                 call.options)
             IN /\ alone.pc = "returned"
                /\ call.result = alone.result

\* a list whose accepted key comes after a rejected one was verified by key trial
C6_Witness ==
    \E c \in Returned :
        /\ IsArray(calls[c].verificationKey)
        /\ UsesKeyList(calls[c])
        /\ Accepted(calls[c], calls[c].verificationKey.items) # {}
        /\ Least(Accepted(calls[c], calls[c].verificationKey.items)) = MaxKeys
        /\ calls[c].result.valid

\* C7: with no key argument, on a parser with neither verificationKeys nor a
\* jwksUrl, verify returns {valid: false, error: 'No verification key or JWKS
\* URL provided'} for every token and never invokes the verifier.
C7_NoVerificationMethod ==
    \A c \in Begun :
        LET call == calls[c]
        IN (/\ call.verificationKey = Undefined
            /\ parser.options.verificationKeys = Undefined
            /\ parser.options.jwksUrl = Undefined) =>
             /\ call.pc = "returned"
             /\ call.result = [valid |-> FALSE,
                               error |-> "No verification key or JWKS URL provided"]
             /\ call.verifierCalls = <<>>

\* a malformed token was refused for want of any verification method
C7_Witness ==
    \E c \in Returned :
        /\ calls[c].verificationKey = Undefined
        /\ parser.options.verificationKeys = Undefined
        /\ parser.options.jwksUrl = Undefined
        /\ ~calls[c].jwt.wellFormed
        /\ calls[c].result.error = "No verification key or JWKS URL provided"

(***************************************************************************)
(* Properties of SecEventBuilder.buildPayload. While `built` holds a       *)
(* completion, `builder` is the state buildPayload ran on.                 *)
(***************************************************************************)
BuiltPayload == built.completion.kind = "return"
BuiltError == built.completion.kind = "throw"

\* C8: custom claims never override reserved fields: iss, jti, iat, events,
\* aud and txn of the payload are the values of the builder's dedicated
\* fields, whatever custom claims were given.
C8_ReservedFieldsWin ==
    BuiltPayload =>
        LET payload == built.completion.value
        IN /\ payload.iss = builder.issuer
           /\ payload.jti \in {builder.jti, generate(idGeneratorOf(builder), idCalls)}
           /\ payload.iat \in {builder.iat, Num(built.at \div 1000)}
           /\ payload.events = builder.events
           /\ Get(payload, "aud") = builder.audience
           /\ Get(payload, "txn") = builder.txn

\* C9, as claimed: 'Issuer is required' exactly when no issuer is set,
\* otherwise 'At least one event is required' exactly when there is no event;
\* a failing buildPayload does not call the ID generator.
C9_FailsExactlyWhenUnset ==
    ~(built.completion.kind = "none") =>
        /\ (built.completion = Throw(Err("Issuer is required")))
               <=> (builder.issuer = Undefined)
        /\ (built.completion = Throw(Err("At least one event is required")))
               <=> (builder.issuer # Undefined /\ Len(builder.events.keys) = 0)
        /\ BuiltError => ~built.generated

\* C9, amended: 'Issuer is required' exactly when the issuer is unset or the
\* empty string, otherwise 'At least one event is required' exactly when
\* there is no event; with both missing the issuer error is raised; a failing
\* buildPayload leaves the builder unchanged and does not call the ID
\* generator.
C9_FailsWhenUnsetOrEmpty ==
    /\ [](~(built.completion.kind = "none") =>
            LET noIssuer == builder.issuer \in {Undefined, Str("")}
                noEvents == Len(builder.events.keys) = 0
            IN /\ (built.completion = Throw(Err("Issuer is required"))) <=> noIssuer
               /\ (built.completion = Throw(Err("At least one event is required")))
                      <=> (~noIssuer /\ noEvents)
               /\ BuiltPayload <=> (~noIssuer /\ ~noEvents)
               /\ BuiltError => ~built.generated)
    /\ [][BuiltError' => (builder' = builder /\ idCalls' = idCalls)]_vars

\* buildPayload failed on a builder with neither issuer nor events
C9_Witness ==
    /\ built.completion = Throw(Err("Issuer is required"))
    /\ builder.issuer = Str("")
    /\ Len(builder.events.keys) = 0

\* C10: payload.jti is the value set by the most recent withJti, otherwise
\* the next value of the ID generator; payload.iat is the value set by the
\* most recent withIat, for every number including 0, otherwise the current
\* time in whole seconds; the ID generator is called only when no jti was
\* set. (Stated for builders without custom claims named jti or iat.)
C10_ExplicitJtiAndIat ==
    (BuiltPayload /\ {"jti", "iat"} \cap DOMAIN heap[builder.additionalClaims] = {}) =>
        LET payload == built.completion.value
        IN /\ payload.jti = IF builder.jti # Undefined THEN builder.jti
                            ELSE generate(idGeneratorOf(builder), idCalls)
           /\ payload.iat = IF builder.iat # Undefined THEN builder.iat
                            ELSE Num(built.at \div 1000)
           /\ built.generated <=> (builder.jti = Undefined)

\* C11: on a builder with an issuer set and at least one event, whatever
\* mutators were called before, buildPayload returns a payload whose jti is a
\* non-empty string, whose iat is a number and whose events is the
\* accumulated events mapping.
C11_PayloadWellFormed ==
    (/\ built.completion.kind # "none"
     /\ Truthy(builder.issuer)
     /\ Len(builder.events.keys) > 0) =>
        /\ BuiltPayload
        /\ LET payload == built.completion.value
           IN /\ TypeOf(payload.jti) = "string" /\ payload.jti # Str("")
              /\ TypeOf(payload.iat) = "number"
              /\ payload.events = builder.events

\* C12: the payload has an aud key exactly when an audience is set on the
\* builder, and a txn key exactly when a transaction id is set.
C12_AudAndTxnOnlyIfSet ==
    BuiltPayload =>
        LET payload == built.completion.value
        IN /\ ("aud" \in DOMAIN payload) <=> (builder.audience # Undefined)
           /\ ("txn" \in DOMAIN payload) <=> (builder.txn # Undefined)

(***************************************************************************)
(* Properties of SecEventBuilder.sign.                                     *)
(***************************************************************************)
\* the step in which sign call s is made
SignCalled(s) == signing[s].pc = "idle" /\ signing'[s].pc # "idle"
\* what buildPayload completes with on the builder a sign call is made on
WouldBuild ==
    buildPayload(builder, heap, generate(idGeneratorOf(builder), idCalls + 1), clock).completion
\* neither an explicit key argument nor a key on the builder
NoKeyFor(call) == call.signingKey = Undefined /\ builder.signingKey = Undefined

\* C13, as claimed: sign runs buildPayload before it checks for a key. With
\* no key, it fails with 'Signing key is required' only if buildPayload
\* succeeds, and with buildPayload's error otherwise; the signer is not
\* invoked by a sign that fails so.
C13_PayloadBuiltFirst ==
    [][\A s \in SignIds :
         (SignCalled(s) /\ NoKeyFor(signing'[s])) =>
            /\ signing'[s].completion =
                   IF WouldBuild.kind = "throw" THEN WouldBuild
                   ELSE Throw(Err("Signing key is required"))
            /\ signing'[s].signerCalls = <<>>]_vars

\* C13, amended: sign checks for a key before it runs buildPayload. With no
\* key it fails with 'Signing key is required' whatever the builder holds,
\* without calling the ID generator; with a key, it fails with buildPayload's
\* error when buildPayload fails. The signer is not invoked by a sign that
\* fails so, and the builder is left as it was.
C13_KeyCheckedFirst ==
    [][\A s \in SignIds :
         SignCalled(s) =>
            /\ NoKeyFor(signing'[s]) =>
                  /\ signing'[s].completion = Throw(Err("Signing key is required"))
                  /\ idCalls' = idCalls
            /\ (~NoKeyFor(signing'[s]) /\ WouldBuild.kind = "throw") =>
                  signing'[s].completion = WouldBuild
            /\ (NoKeyFor(signing'[s]) \/ WouldBuild.kind = "throw") =>
                  /\ signing'[s].pc = "rejected"
                  /\ signing'[s].signerCalls = <<>>
                  /\ builder' = builder /\ heap' = heap]_vars

\* a sign without any key was refused for the key on a builder that has
\* neither issuer nor events
C13_Witness ==
    \E s \in SignIds :
        /\ signing[s].completion = Throw(Err("Signing key is required"))
        /\ signing[s].signingKey = Undefined
        /\ builder.signingKey = Undefined
        /\ builder.issuer = Undefined
        /\ Len(builder.events.keys) = 0

(***************************************************************************)
(* Properties of reset and clone.                                          *)
(***************************************************************************)
\* the state of a builder: its fields, with the entries of its custom claims
StateOf(b, h) == [b EXCEPT !.additionalClaims = h[b.additionalClaims]]
\* the state of new SecEventBuilder(options)
FreshState(options) ==
    LET e == SecEventBuilder(options, EmptyHeap, 1) IN StateOf(e.this, e.heap)

\* C14: after any sequence of mutators, reset() leaves the builder in the
\* state of a freshly constructed builder with the same options: issuer,
\* audience and signing key are the configured defaults, or unset when none
\* was configured; jti, iat and txn are unset, events and custom claims empty.
C14_ResetRestoresDefaults ==
    [][Reset("builder") =>
         LET after == StateOf(builder', heap')
         IN /\ after = FreshState(builder.options)
            /\ after.options = builder.options
            /\ after.issuer = builder.options.defaultIssuer
            /\ after.audience = builder.options.defaultAudience
            /\ after.signingKey = builder.options.signingKey
            /\ after.jti = Undefined /\ after.iat = Undefined /\ after.txn = Undefined
            /\ after.events = ObjOf(<<>>, Empty)
            /\ after.additionalClaims = Empty]_vars

\* a builder with configured defaults that once built a payload, hence held
\* events, and is back in its fresh state: it has been reset
C14_Witness ==
    /\ idCalls > 0
    /\ builder.options.defaultIssuer # Undefined
    /\ builder.options.signingKey # Undefined
    /\ StateOf(builder, heap) = FreshState(builder.options)

\* the builder `who` after a step
NextBuilderOf(who) == IF who = "builder" THEN builder' ELSE copy'
\* C15: once c = b.clone() exists, a mutator or reset of b leaves every field
\* of c, its events and its custom claims included, and so the completion of
\* c.buildPayload(), as they were; and a mutator or reset of c leaves b so.
C15_CloneIndependent ==
    [][\A who \in Builders :
         (copy # NoBuilder /\ CloneActs(who)) =>
            \A other \in Builders \ {who} :
               /\ StateOf(NextBuilderOf(other), heap') = StateOf(BuilderOf(other), heap)
               /\ buildPayload(NextBuilderOf(other), heap', Str("next-id"), clock')
                    = buildPayload(BuilderOf(other), heap, Str("next-id"), clock)]_vars

\* the builder and its clone have come to differ in txn, events and custom
\* claims, each holding what the other lacks
C15_Witness ==
    /\ copy # NoBuilder
    /\ builder.txn # Undefined /\ copy.txn = Undefined
    /\ Len(builder.events.keys) = 0 /\ Len(copy.events.keys) > 0
    /\ heap[builder.additionalClaims] = Empty
    /\ "custom" \in DOMAIN heap[copy.additionalClaims]

\* C16: right after c = b.clone(), c holds the state and the options of b, so
\* b.buildPayload() and c.buildPayload(), called one after the other, either
\* fail with the same error or both succeed, with payloads that agree on
\* every claim but a generated jti and a generated iat: they agree on jti and
\* on iat when these were set explicitly.
C16_CloneAgrees ==
    [][Clone =>
         LET ofBuilder == buildPayload(builder, heap,
                                       generate(idGeneratorOf(builder), idCalls + 1),
                                       clock).completion
             ofCopy == buildPayload(copy', heap',
                                    generate(idGeneratorOf(copy'), idCalls + 2),
                                    clock + 1000).completion
         IN /\ StateOf(copy', heap') = StateOf(builder, heap)
            /\ builder' = builder
            /\ ofBuilder.kind = ofCopy.kind
            /\ ofBuilder.kind = "throw" => ofCopy = ofBuilder
            /\ ofBuilder.kind = "return" =>
                  /\ DOMAIN ofCopy.value = DOMAIN ofBuilder.value
                  /\ \A k \in DOMAIN ofBuilder.value \ {"jti", "iat"} :
                        ofCopy.value[k] = ofBuilder.value[k]
                  /\ builder.jti # Undefined => ofCopy.value.jti = ofBuilder.value.jti
                  /\ builder.iat # Undefined => ofCopy.value.iat = ofBuilder.value.iat]_vars

(***************************************************************************)
(* Properties of the mutators of the two collections.                      *)
(***************************************************************************)
\* the entries of an object with ordered keys, as (key, value) pairs
Entries(obj) == {<<k, obj.vals[k]>> : k \in Range(obj.keys)}
\* the entries left by merging an argument into entries, by key
Merged(entries, arg) ==
    {e \in entries : e[1] \notin Range(arg.keys)} \cup Entries(arg)
RECURSIVE MergedAll(_, _)
\* the entries left by merging a list of arguments in order
MergedAll(entries, args) ==
    IF args = <<>> THEN entries
    ELSE MergedAll(Merged(entries, Head(args)), Tail(args))
\* every key of the object is listed once
KeysOnce(obj) ==
    /\ Cardinality(Range(obj.keys)) = Len(obj.keys)
    /\ DOMAIN obj.vals = Range(obj.keys)

\* C17: withEvent and withEvents merge by event-type URI: the events mapping
\* then holds every earlier entry whose URI is not in the argument and every
\* entry of the argument, the latest value winning for a URI given more than
\* once; withEvents(e1, e2) leaves the builder as withEvent(e1).withEvent(e2)
\* does; nothing but the events mapping changes.
C17_EventsMerge ==
    /\ \A event \in EventInputs :
          LET after == withEvent(builder, event)
          IN /\ Entries(after.events) = Merged(Entries(builder.events), event)
             /\ KeysOnce(after.events)
             /\ [after EXCEPT !.events = builder.events] = builder
    /\ \A events \in SeqsUpTo(EventInputs, 2) :
          LET after == withEvents(builder, events)
          IN /\ Entries(after.events) = MergedAll(Entries(builder.events), events)
             /\ KeysOnce(after.events)
             /\ [after EXCEPT !.events = builder.events] = builder
             /\ Len(events) = 1 => after = withEvent(builder, events[1])
             /\ Len(events) = 2 =>
                   after = withEvent(withEvent(builder, events[1]), events[2])

\* two event types accumulated, the first of them given a second time with
\* another value
C17_Witness ==
    builder.events =
        ObjOf(<<"https://example.com/event", "http://example.com/event">>,
              [k \in {"https://example.com/event", "http://example.com/event"} |->
                  IF k = "https://example.com/event" THEN Str("second") ELSE Str("first")])

\* the builder is left with these custom claims and is otherwise as it was
OnlyClaimsBecome(e, claims) ==
    /\ StateOf(e.this, e.heap) = [StateOf(builder, heap) EXCEPT !.additionalClaims = claims]
    /\ \A k \in DOMAIN e.this \ {"additionalClaims"} : e.this[k] = builder[k]

\* C18: withClaim and withClaims change the custom claims only: issuer,
\* audience, jti, iat, txn, events and signing key stay as they were, every
\* custom claim whose key is not in the argument is kept, and the argument's
\* value replaces an earlier one for the same key.
C18_ClaimsOnly ==
    LET old == heap[builder.additionalClaims]
    IN /\ \A key \in ClaimKeys \cup {"txn"}, value \in ClaimValues \cup {Str("latest")} :
             OnlyClaimsBecome(withClaim(builder, heap, key, value),
                              [k \in DOMAIN old \cup {key} |->
                                  IF k = key THEN value ELSE old[k]])
       /\ \A claims \in ClaimRecords :
             OnlyClaimsBecome(withClaims(builder, heap, claims, NewObject("builder")),
                              [k \in DOMAIN old \cup DOMAIN claims |->
                                  IF k \in DOMAIN claims THEN claims[k] ELSE old[k]])

\* custom claims given by withClaim and by withClaims, with a key of the latter
\* given again by withClaim, on a builder whose own issuer is another value
C18_Witness ==
    LET claims == heap[builder.additionalClaims]
    IN /\ DOMAIN claims = DOMAIN reservedClaims \cup {"custom"}
       /\ claims["iss"] = Str("value")
       /\ claims["jti"] = reservedClaims.jti
       /\ builder.issuer = Str("https://example.com")
       /\ builder.jti = Undefined

(***************************************************************************)
(* Properties of SecEventParser.decode.                                    *)
(***************************************************************************)
\* a decode call has completed on a token that has claims
DecodedClaims == decoded.completion.kind # "none" /\ decoded.jwt.wellFormed

\* C19: decode returns the claims exactly when events is a mapping (not an
\* array, a string or null), iss a non-empty string, jti a non-empty string
\* and iat a number; otherwise it throws the error of the first of these
\* checks that fails, in the order events, iss, jti, iat.
C19_DecodeChecks ==
    DecodedClaims =>
        LET claims == decoded.jwt.claims
            eventsOk == Get(claims, "events").t = "object"
            issOk == Get(claims, "iss").t = "string" /\ Get(claims, "iss") # Str("")
            jtiOk == Get(claims, "jti").t = "string" /\ Get(claims, "jti") # Str("")
            iatOk == Get(claims, "iat").t = "number"
        IN decoded.completion =
              IF ~eventsOk THEN Throw(Err("Missing or invalid events claim"))
              ELSE IF ~issOk THEN Throw(Err("Missing or invalid issuer claim"))
              ELSE IF ~jtiOk THEN Throw(Err("Missing or invalid jti claim"))
              ELSE IF ~iatOk THEN Throw(Err("Missing or invalid iat claim"))
              ELSE Return(claims)

(***************************************************************************)
(* Properties of the validation verify runs on a verified payload.         *)
(***************************************************************************)
\* the error of each structural rule the claims violate, each rule taken alone
StructuralViolations(claims) ==
    (IF Get(claims, "events").t = "object" THEN {}
     ELSE {"Missing or invalid events claim"})
    \cup (IF Get(claims, "iss").t = "string" /\ Get(claims, "iss") # Str("") THEN {}
          ELSE {"Missing or invalid issuer claim"})
    \cup (IF Get(claims, "jti").t = "string" /\ Get(claims, "jti") # Str("") THEN {}
          ELSE {"Missing or invalid jti claim"})
    \cup (IF Get(claims, "iat").t = "number" THEN {}
          ELSE {"Missing or invalid iat claim"})

\* C20: once the verifier has accepted the token, the errors list of the
\* result has an entry for each structural rule the payload violates (events,
\* iss, jti, iat), for each required claim it lacks and for each event key
\* that is no http(s) URI: no violation hides another.
C20_EveryViolationReported ==
    \A c \in Returned :
        LET call == calls[c]
            claims == call.jwt.claims
            options == mergeOptions(parser.options.defaultValidationOptions, call.options)
            required == IF "requiredClaims" \in DOMAIN options
                        THEN Range(options["requiredClaims"].items) ELSE {}
            expected ==
                StructuralViolations(claims)
                \cup {"Missing required claim: " \o r : r \in required \ DOMAIN claims}
                \cup {"Invalid event URI format: " \o k :
                         k \in {u \in Range(claims.events.keys) : ~isValidEventUri(u)}}
        IN ((\E i \in DOMAIN call.verifierCalls : OutcomeOf(call, i).ok) /\ expected # {}) =>
              /\ ~call.result.valid
              /\ "errors" \in DOMAIN call.result
              /\ expected \subseteq Range(call.result.errors)

\* the messages the required-claims loop can push, for the names the
\* validation options of the model list
RequiredNames ==
    UNION {Range(o["requiredClaims"].items) : o \in {s \in OptionSets : "requiredClaims" \in DOMAIN s}}
RequiredMessages == {"Missing required claim: " \o name : name \in RequiredNames}

\* the verifier has accepted the token of call c
Verified(c) == \E i \in DOMAIN calls[c].verifierCalls : OutcomeOf(calls[c], i).ok

\* the entries of result.errors that are among the given messages, in order
Reported(result, messages) ==
    IF "errors" \in DOMAIN result
    THEN SelectSeq(result.errors, LAMBDA e : e \in messages)
    ELSE <<>>

\* C21: for a verified payload, the 'Missing required claim: <c>' entries of
\* the errors list are exactly those of the names of the merged
\* requiredClaims that are no claim of the payload, one per name and in the
\* order listed, and a payload that lacks a required claim is not reported
\* valid.
C21_RequiredClaimsReported ==
    \A c \in Returned :
        LET call == calls[c]
            claims == call.jwt.claims
            options == mergeOptions(parser.options.defaultValidationOptions, call.options)
            listed == IF "requiredClaims" \in DOMAIN options
                      THEN options["requiredClaims"].items ELSE <<>>
            missing == SelectSeq(listed, LAMBDA name : name \notin DOMAIN claims)
        IN Verified(c) =>
              /\ Reported(call.result, RequiredMessages)
                     = [i \in 1..Len(missing) |-> "Missing required claim: " \o missing[i]]
              /\ missing # <<>> => ~call.result.valid

\* the event keys of the tokens of the model, and those of them that are
\* absolute URIs with scheme http or https
EventKeys == UNION {Range(t.claims.events.keys) : t \in Tokens}
HttpUris == {"https://example.com/event", "http://example.com/event"}
UriMessages == {"Invalid event URI format: " \o key : key \in EventKeys}

\* the keys of the events claim of call c that are no http(s) URI, in order
InvalidEventKeys(c) ==
    SelectSeq(calls[c].jwt.claims.events.keys, LAMBDA key : key \notin HttpUris)

WithoutSub(claims) == [k \in DOMAIN claims \ {"sub"} |-> claims[k]]

\* the tokens that differ from jwt only in the presence or the value of sub
Twins(jwt) ==
    {t \in Tokens : /\ t # jwt
                    /\ t.wellFormed = jwt.wellFormed
                    /\ t.secret = jwt.secret
                    /\ WithoutSub(t.claims) = WithoutSub(jwt.claims)}

\* the merged requiredClaims of call c do not name sub
SubNotRequired(c) ==
    LET options == mergeOptions(parser.options.defaultValidationOptions, calls[c].options)
    IN "requiredClaims" \in DOMAIN options => "sub" \notin Range(options["requiredClaims"].items)

\* C23: a top-level sub claim is tolerated. When verify has returned for a
\* verified payload, under options that do not require sub, the same call on
\* a token that differs only in its sub claim returns the same valid flag
\* and the same errors list.
C23_SubTolerated ==
    \A c \in Returned :
        (Verified(c) /\ SubNotRequired(c)) =>
            \A twin \in Twins(calls[c].jwt) :
                LET here == calls[c].result
                    there == verify(parser, twin, calls[c].verificationKey,
                                    calls[c].options).result
                IN /\ there.valid = here.valid
                   /\ ("errors" \in DOMAIN there) = ("errors" \in DOMAIN here)
                   /\ "errors" \in DOMAIN here => there.errors = here.errors

\* a payload with a sub claim and no other fault is reported valid, and the
\* model has its twin without sub
C23_Witness ==
    \E c \in Returned :
        /\ Verified(c)
        /\ calls[c].jwt.claims = payloadWithSub
        /\ Token(TRUE, "secret1", payloadValid) \in Twins(calls[c].jwt)
        /\ calls[c].result.valid

\* the fields of ValidationOptions
OptionFields ==
    {"issuer", "audience", "clockTolerance", "currentDate", "requiredClaims", "maxTokenAge"}

\* the effective options of call c take each field from the call when the
\* call supplies it, from the parser's defaults otherwise
MergedPerField(c) ==
    \A field \in OptionFields :
        Get(calls[c].mergedOptions, field)
            = IF field \in DOMAIN calls[c].options
              THEN calls[c].options[field]
              ELSE Get(parser.options.defaultValidationOptions, field)

\* C24: in verify, each field of the effective ValidationOptions is the
\* call's value when the call supplies the field and the parser's default
\* otherwise, and no step of a verify call changes the parser's stored
\* defaults, so that a later call sees the defaults the parser was made with.
C24_OptionsMergedPerField ==
    [][/\ parser' = parser
       /\ \A c \in CallIds : calls'[c].pc # "idle" => MergedPerField(c)']_vars

\* a call that supplies some fields on a parser whose defaults supply all:
\* the issuer is the call's, the audience the parser's
C24_Witness ==
    \E c \in Returned :
        /\ parser.options.defaultValidationOptions = allDefaults
        /\ calls[c].options = [issuer |-> Str("https://other.com")]
        /\ calls[c].mergedOptions["issuer"] = Str("https://other.com")
        /\ calls[c].mergedOptions["audience"] = Str("https://app.example.com")

(***************************************************************************)
(* Properties of the KeyManager.                                           *)
(***************************************************************************)
\* what getKey(kid) returns in this state
Stored(kid) == getKey(keyManager, keyObjects, kid)
\* what getAllKeys() returns in this state, and the ids of its elements
AllKeys == getAllKeys(keyManager, keyObjects).items
KidsInOrder == [i \in DOMAIN AllKeys |-> AllKeys[i].kid]

\* C27: after addKey(id, key), getKey(id) returns a key whose kid is id and
\* whose alg and key material are those supplied; the entries under other ids
\* are unchanged and the caller's object is not modified; and when the caller
\* later assigns fields of its object, no stored entry changes.
C27_AddKeyStoresTaggedCopy ==
    [][/\ \A kid \in Kids, ref \in CallerObjects :
              AddKey(kid, ref) =>
                  /\ Stored(kid)' # Undefined
                  /\ Stored(kid)'.kid = kid
                  /\ Stored(kid)'.alg = keyObjects[ref].alg
                  /\ Stored(kid)'.key = keyObjects[ref].key
                  /\ \A other \in Kids \ {kid} : Stored(other)' = Stored(other)
                  /\ keyObjects'[ref] = keyObjects[ref]
       /\ \A ref \in CallerObjects :
              CallerWrites(ref) => \A kid \in Kids : Stored(kid)' = Stored(kid)]_vars

\* a key added under k1 from an object tagged otherwise, whose fields the
\* caller has changed since, next to an entry under k2
C27_Witness ==
    /\ Stored("k1") # Undefined
    /\ Stored("k2") # Undefined
    /\ Stored("k1").kid = "k1"
    /\ keyObjects[0].kid = "other"
    /\ keyObjects[0].alg # Stored("k1").alg
    /\ keyObjects[0].key # Stored("k1").key

\* C28: getAllKeys returns one entry per id present, in the order the ids
\* were inserted: addKey of an absent id places it last, addKey of a present
\* id keeps the order, removeKey takes the id out and clear empties the
\* list; getDefaultKey returns the first element of the list, or undefined
\* exactly when the list is empty; and getKey, getAllKeys and getDefaultKey
\* change neither the contents nor the order.
C28_InsertionOrder ==
    [][/\ \A kid \in Kids, ref \in CallerObjects :
              AddKey(kid, ref) =>
                  KidsInOrder' = IF kid \in Range(KidsInOrder) THEN KidsInOrder
                                 ELSE Append(KidsInOrder, kid)
       /\ \A kid \in Kids :
              RemoveKey(kid) => KidsInOrder' = SelectSeq(KidsInOrder, LAMBDA k : k # kid)
       /\ Clear => KidsInOrder' = <<>>
       /\ ((\E kid \in Kids : GetKey(kid)) \/ GetAllKeys \/ GetDefaultKey) => AllKeys' = AllKeys
       /\ (\E ref \in CallerObjects : CallerWrites(ref)) => AllKeys' = AllKeys
       /\ \A i, j \in DOMAIN KidsInOrder' : KidsInOrder'[i] = KidsInOrder'[j] => i = j
       /\ getDefaultKey(keyManager', keyObjects')
              = IF Len(AllKeys') = 0 THEN Undefined ELSE AllKeys'[1]]_vars

\* k2 was inserted before k1, and getDefaultKey has returned the key of k2
C28_Witness ==
    /\ KidsInOrder = <<"k2", "k1">>
    /\ answer.op = "getDefaultKey"
    /\ answer.value # Undefined
    /\ answer.value.kid = "k2"

\* C29: removeKey(id) returns true exactly when an entry for id was present;
\* afterwards getKey(id) is undefined, the other entries and their order are
\* unchanged, and a repeated removeKey(id) returns false and changes nothing.
C29_RemoveKeyReports ==
    [][\A kid \in Kids :
           RemoveKey(kid) =>
               /\ answer'.value = Bool(Stored(kid) # Undefined)
               /\ Stored(kid)' = Undefined
               /\ AllKeys' = SelectSeq(AllKeys, LAMBDA k : k.kid # kid)
               /\ ~removeKey(keyManager', kid).returned
               /\ removeKey(keyManager', kid).keys = keyManager']_vars

\* removeKey has returned true and left the entry that was inserted after
\* the removed one
C29_Witness ==
    /\ answer = [op |-> "removeKey", value |-> Bool(TRUE)]
    /\ KidsInOrder = <<"k2">>
    /\ Stored("k1") = Undefined

(***************************************************************************)
(* Properties of the Events factories.                                     *)
(***************************************************************************)
\* the optional fields of the event data each factory makes
OptionalFields(factory) ==
    CASE factory = "sessionRevoked" -> {"reason"}
      [] factory = "tokenClaimsChange" -> {"claims"}
      [] factory = "credentialChange" ->
            {"credential_type", "change_type", "reason", "x509_issuer", "x509_serial",
             "fido2_aaguid", "friendly_name"}
      [] factory = "assuranceLevelChange" ->
            {"current_level", "previous_level", "change_direction", "initiating_entity"}
      [] factory = "deviceComplianceChange" ->
            {"current_status", "previous_status", "compliance_policies"}
      [] factory = "streamUpdated" -> {"effective_time"}
      [] factory = "verification" -> {"state"}
      [] OTHER -> {}

\* the optional fields the caller of the factory supplied: the optional
\* argument itself, or the fields of the options object
Supplied(m) ==
    LET last == m.args[Len(m.args)]
    IN IF m.factory \in {"credentialChange", "assuranceLevelChange", "deviceComplianceChange"}
       THEN Range(Spreadable(last).keys)
       ELSE IF last = Undefined THEN {} ELSE OptionalFields(m.factory)

\* the event-data record of the event a factory made
DataOf(m) == m.event.vals[m.event.keys[1]]

\* C30: the event-data record a factory returns has no key for an optional
\* argument the caller omitted.
C30_OmittedFieldsAbsent ==
    lastEvent # NothingMade =>
        \A field \in OptionalFields(lastEvent.factory) \ Supplied(lastEvent) :
            field \notin Range(DataOf(lastEvent).keys)

(***************************************************************************)
(* Round trips: sign, then decode or verify.                               *)
(***************************************************************************)
\* the payload sign call s has resolved with
SignedPayload(s) == signing[s].completion.value.payload

\* C25: when sign has succeeded and decode has been applied to its token,
\* decode has returned claims whose iss, aud, jti, iat, events and custom
\* claims equal those of the payload sign returned.
C25_DecodeRecoversPayload ==
    \A s \in SignIds :
        (signing[s].pc = "resolved" /\ decoded.jwt = SignedJwt(s)) =>
            /\ decoded.completion.kind = "return"
            /\ \A claim \in DOMAIN SignedPayload(s) \cup DOMAIN decoded.completion.value :
                   Get(decoded.completion.value, claim) = Get(SignedPayload(s), claim)

Alone(c) == verify(ParserOf(c), calls[c].jwt, calls[c].verificationKey, calls[c].options)

\* what call c has done so far is what it does, that far, when run alone
AsAlone(c) ==
    LET call == calls[c]
        n == Len(call.verifierCalls)
    IN /\ n <= Len(Alone(c).verifierCalls)
       /\ call.verifierCalls = SubSeq(Alone(c).verifierCalls, 1, n)
       /\ \A i \in 1..n : call.verifierCalls[i].jwt = call.jwt
       /\ (call.pc = "awaitKey") =>
              call.verifierCalls[n].key = selectKeys(ParserOf(c), call.verificationKey).items[n].key
       /\ (call.pc = "awaitJwks") => call.verifierCalls[n].key = ParserOf(c).jwks
       /\ (call.pc \in {"returned", "rejected"}) =>
              /\ call.pc = Alone(c).pc
              /\ call.result = Alone(c).result
              /\ call.verifierCalls = Alone(c).verifierCalls

\* C31: concurrent verify calls do not interfere: whatever the interleaving
\* of the calls at the awaits of the verifier, on one parser or on two, each
\* call returns the result it returns when run alone and passes the verifier
\* its own token with its own keys in its own order, and no step changes the
\* configuration of a parser.
C31_CallsDoNotInterfere ==
    /\ [](\A c \in DOMAIN calls : calls[c].pc # "idle" => AsAlone(c))
    /\ [][parser' = parser /\ peer' = peer]_vars

\* two calls on one parser are both suspended at their second key, each with
\* an error of its own from its first key, while the call on the other parser
\* has returned
C31_Witness ==
    /\ calls[1].pc = "awaitKey" /\ calls[1].idx = 2
    /\ calls[2].pc = "awaitKey" /\ calls[2].idx = 2
    /\ calls[1].lastError # calls[2].lastError
    /\ calls[1].jwt # calls[2].jwt
    /\ calls[3].pc = "returned"

(***************************************************************************)
(* Properties of verify: what a valid result rests on.                     *)
(***************************************************************************)
\* whether the key belongs to the key source selected for the call: the
\* explicit key argument when one is passed, else the configured
\* verificationKeys, else the remote key set
FromSelectedSource(call, key) ==
    LET explicit == call.verificationKey
        configured == parser.options.verificationKeys
    IN IF explicit # Undefined
       THEN key \in Range(MaterialOf(selectKeys(parser, explicit).items))
       ELSE IF configured # Undefined
       THEN key \in Range(MaterialOf(configured.items))
       ELSE key = parser.jwks

\* the last invocation of the verifier by the call succeeded, on the call's token
LastInvocationSucceeded(call) ==
    LET n == Len(call.verifierCalls)
    IN /\ n > 0
       /\ call.verifierCalls[n].jwt = call.jwt
       /\ OutcomeOf(call, n).ok

\* C32: verify returns valid: true only if the verifier succeeded on the
\* given token with a key (or remote key set) of the selected key source; the
\* payload of a valid result is exactly the claims that verifier call
\* returned; validation runs only on claims the verifier returned, and no
\* result carries claims of a token the verifier did not accept.
C32_ValidOnlyIfVerified ==
    \A c \in Returned :
        LET call == calls[c]
            n == Len(call.verifierCalls)
        IN /\ call.result.valid =>
                /\ LastInvocationSucceeded(call)
                /\ FromSelectedSource(call, call.verifierCalls[n].key)
                /\ call.result.payload = OutcomeOf(call, n).payload
           /\ "errors" \in DOMAIN call.result =>
                /\ LastInvocationSucceeded(call)
                /\ call.result.errors =
                       validateSecEvent(OutcomeOf(call, n).payload, call.mergedOptions)
           /\ "payload" \in DOMAIN call.result => LastInvocationSucceeded(call)
           /\ call.payload # Undefined =>
                /\ LastInvocationSucceeded(call)
                /\ call.payload = OutcomeOf(call, n).payload

(***************************************************************************)
(* Properties of decode: no trust is established.                          *)
(***************************************************************************)
\* the tokens that carry the claims of jwt, whatever they are signed with
SameClaims(jwt) == {Token(jwt.wellFormed, secret, jwt.claims) : secret \in DecodeSecrets}
\* the parsers decode may be called on
DecodeParsers == {SecEventParser(options) : options \in DecodeParserOptions}

\* C33: decode depends only on the claims of the token: its outcome (the
\* claims returned or the error thrown) is the outcome of decode on every
\* token with the same claims and another signature, on every parser whatever
\* its keys and options; and decode never invokes the verifier.
C33_DecodeDependsOnClaimsOnly ==
    /\ [](decoded.completion.kind # "none" =>
              \A p \in DecodeParsers, twin \in SameClaims(decoded.jwt) :
                  decode(p, twin) = decoded.completion)
    /\ [][decoded' # decoded => calls' = calls]_vars
    /\ [](\A c \in DOMAIN calls : calls[c].verifierCalls = <<>>)

\* a parser configured with keys and a remote key set decoded a token that
\* none of its keys verifies, and returned its claims
C33_Witness ==
    /\ decoded.completion.kind = "return"
    /\ decoded.jwt.secret = "forged"
    /\ Truthy(parser.jwks)
    /\ Truthy(parser.options.verificationKeys)
    /\ decoded.completion.value = decoded.jwt.claims

(***************************************************************************)
(* Properties of verify and decode on an events claim without entries.     *)
(***************************************************************************)
\* the events claim is a mapping with no entries
NoEntries(claims) ==
    /\ Get(claims, "events").t = "object"
    /\ Get(claims, "events").keys = <<>>

\* C34: verify rejects a verified payload whose events mapping has no
\* entries, with valid: false and 'No events present in events claim' among
\* the errors; the structural validation shared with decode does not reject
\* the payload, so decode returns it.
C34_EmptyEventsRejectedByVerify ==
    \A c \in Returned :
        LET call == calls[c]
            claims == call.jwt.claims
        IN (Verified(c) /\ NoEntries(claims)) =>
             /\ ~call.result.valid
             /\ "errors" \in DOMAIN call.result
             /\ "No events present in events claim" \in Range(call.result.errors)
             /\ validatePayloadStructure(claims) = <<>>
             /\ decode(parser, call.jwt) = Return(claims)

\* a token with an empty events mapping was verified with its key and rejected
\* for that reason alone
C34_Witness ==
    \E c \in Returned :
        /\ Verified(c)
        /\ NoEntries(calls[c].jwt.claims)
        /\ calls[c].options = Empty
        /\ calls[c].result = [valid |-> FALSE,
                              errors |-> <<"No events present in events claim">>,
                              error |-> "No events present in events claim"]

(***************************************************************************)
(* Properties of verify: the constraints passed to the verifier.           *)
(***************************************************************************)
\* the fields of ValidationOptions that constrain the verifier
ConstraintFields == {"issuer", "audience", "clockTolerance", "currentDate", "maxTokenAge"}

\* the constraint a set field of the options stands for
ConstraintOf(field, value) ==
    IF field = "maxTokenAge" THEN Str(ToString(value.n) \o "s") ELSE value

\* C35: every field set in the effective ValidationOptions (issuer, audience,
\* clockTolerance, currentDate, maxTokenAge) is passed as a constraint in
\* every call of the verifier made by that verify call, maxTokenAge as a
\* number of seconds, for every value of the field, clockTolerance 0 and
\* maxTokenAge 0 included; and the constraints are the same for every
\* candidate key and for the remote key set.
C35_OptionsBecomeConstraints ==
    \A c \in Begun :
        LET call == calls[c]
            effective == mergeOptions(parser.options.defaultValidationOptions, call.options)
        IN \A i \in DOMAIN call.verifierCalls :
               LET constraints == call.verifierCalls[i].options
               IN /\ \A field \in ConstraintFields :
                         Get(effective, field) # Undefined =>
                             /\ field \in DOMAIN constraints
                             /\ constraints[field] = ConstraintOf(field, effective[field])
                  /\ constraints = call.verifierCalls[1].options

(***************************************************************************)
(* Properties of sign: the invocation of the external signer.              *)
(***************************************************************************)
\* the header the signer is to be given for a key
HeaderFor(key, header) ==
    /\ header.alg = key.alg
    /\ header.typ = "secevent+jwt"
    /\ ("kid" \in DOMAIN header) <=> (key.kid # "")
    /\ ("kid" \in DOMAIN header) => header.kid = key.kid

\* sign call s has been called and has got as far as the signer
SignerInvoked(s) == signing[s].pc = "idle" /\ signing'[s].pc = "awaitSign"
\* sign call s resolves
SignResolves(s) == signing[s].pc = "awaitSign" /\ signing'[s].pc = "resolved"

\* C36: a successful sign invokes the signer exactly once, with the explicit
\* key argument when one is given and otherwise the builder's current signing
\* key, with a protected header whose alg is that key's alg, whose typ is
\* 'secevent+jwt' and which has a kid exactly when the key has one; the
\* payload returned is the claim set given to the signer.
C36_SignerInvokedOnce ==
    [][\A s \in DOMAIN signing :
          /\ SignerInvoked(s) =>
                LET call == signing'[s]
                    key == IF call.signingKey # Undefined THEN call.signingKey
                           ELSE builder.signingKey
                IN /\ Len(call.signerCalls) = 1
                   /\ call.signerCalls[1].key = key.key
                   /\ HeaderFor(key, call.signerCalls[1].header)
          /\ SignResolves(s) =>
                /\ signing'[s].signerCalls = signing[s].signerCalls
                /\ Len(signing'[s].signerCalls) = 1
                /\ signing'[s].completion.value.payload = signing[s].signerCalls[1].claims
          /\ signing'[s].pc = "resolved" => signing[s].pc \in {"awaitSign", "resolved"}
      ]_vars

\* a builder with a signing key of its own signed with an explicit key that
\* has no kid: the header has the explicit key's alg and no kid
C36_Witness ==
    \E s \in DOMAIN signing :
        /\ signing[s].pc = "resolved"
        /\ builder.signingKey \in {keyA, keyW}
        /\ signing[s].signingKey = keyNoKid
        /\ signing[s].signerCalls[1].header = [alg |-> "HS512", typ |-> "secevent+jwt"]
        /\ signing[s].signerCalls[1].key = keyNoKid.key

(***************************************************************************)
(* Properties of verify: termination.                                      *)
(***************************************************************************)
\* the call has reached a terminal result
Terminal(c) == calls[c].pc \in {"returned", "rejected"}

\* how many times a call may invoke the verifier, by the way it verifies
VerifierCallsBounded(c) ==
    LET call == calls[c]
        n == Len(call.verifierCalls)
    IN /\ noVerificationMethod(parser, call.keys) => n = 0
       /\ Truthy(parser.jwks) =>
            /\ n <= 1
            /\ Terminal(c) => n = 1
            /\ \A i \in 1..n : call.verifierCalls[i].key = parser.jwks
       /\ UsesKeyList(call) =>
            /\ n <= Len(call.keys.items)
            /\ \A i \in 1..n : call.verifierCalls[i].key = call.keys.items[i].key
            /\ call.pc = "awaitKey" => call.idx = n

\* a step of a call in flight invokes the verifier at most once, for the next key
OneKeyForward(c) ==
    LET n == Len(calls[c].verifierCalls)
    IN calls[c].pc \in {"awaitKey", "awaitJwks"} =>
         /\ Len(calls'[c].verifierCalls) \in {n, n + 1}
         /\ SubSeq(calls'[c].verifierCalls, 1, n) = calls[c].verifierCalls
         /\ calls'[c].idx >= calls[c].idx
         /\ Len(calls'[c].verifierCalls) = n + 1 /\ UsesKeyList(calls[c]) =>
                calls'[c].idx = calls[c].idx + 1

\* C37: verify terminates. With a verifier that answers every call, every
\* verify call reaches a terminal result, after at most one verifier call per
\* candidate key, in list order and never back to an earlier key, exactly one
\* call for the remote key set, and none when there is no verification method.
C37_VerifyTerminates ==
    /\ \A c \in CallIds : (calls[c].pc # "idle") ~> Terminal(c)
    /\ [](\A c \in CallIds : VerifierCallsBounded(c))
    /\ [][\A c \in CallIds : OneKeyForward(c)]_vars

\* every key of a longest list was rejected, each tried once, and the call
\* has returned
C37_Witness ==
    \E c \in CallIds :
        /\ Terminal(c)
        /\ UsesKeyList(calls[c])
        /\ Len(calls[c].keys.items) = MaxKeys
        /\ Len(calls[c].verifierCalls) = MaxKeys
        /\ ~calls[c].result.valid

(***************************************************************************)
(* Properties of buildPayload: the payload is the caller's.                *)
(***************************************************************************)
\* buildPayload has just returned a payload to the caller
PayloadReturned == held' # held

\* C38: buildPayload returns a fresh value and does not change the builder.
\* A successful buildPayload leaves every field of the builder and its custom
\* claims as they were; a generated jti is not stored, so each build without
\* an explicit jti draws a value of the generator, and two of them differ; a
\* payload once returned is not changed by any later operation of the builder
\* (withEvent, withEvents, withClaim, withClaims, reset, clone).
C38_BuildPayloadFresh ==
    /\ [][PayloadReturned =>
             /\ builder' = builder
             /\ heap' = heap
             /\ copy' = copy
             /\ held' = Append(held, held'[Len(held')])
             /\ ~Truthy(builder.jti) =>
                    /\ idCalls' = idCalls + 1
                    /\ held'[Len(held')].generated
                    /\ held'[Len(held')].payload.jti = generate(idGeneratorOf(builder), idCalls')
       ]_vars
    /\ [][\A i \in DOMAIN held : i \in DOMAIN held' /\ held'[i] = held[i]]_vars
    /\ [](\A i, j \in DOMAIN held :
              (i # j /\ held[i].generated /\ held[j].generated) =>
                  held[i].payload.jti # held[j].payload.jti)

\* two payloads were built without an explicit jti, the builder was changed
\* between them and cloned and reset after them, and the caller holds both as
\* they were returned
C38_Witness ==
    /\ Len(held) = 2
    /\ held[1].generated /\ held[2].generated
    /\ held[1].payload.events # held[2].payload.events
    /\ "custom" \in DOMAIN held[2].payload
    /\ Len(builder.events.keys) = 0
    /\ heap[builder.additionalClaims] = Empty
    /\ copy # NoBuilder

(***************************************************************************)
(* Properties of sign: the snapshot taken before the await.                *)
(***************************************************************************)
\* what a sign call made now would take from the builder
PayloadNow ==
    buildPayload(builder, heap, generate(idGeneratorOf(builder), idCalls + 1), clock)
        .completion.value
KeyNow(signingKey) == IF signingKey # Undefined THEN signingKey ELSE builder.signingKey

\* C39: sign takes its snapshot of the builder before it suspends. The
\* payload and the key of a sign call are those of the builder at the moment
\* of the call; no operation of the builder that runs while the signer is at
\* work changes the claims being signed or the payload to be returned; and
\* every sign call, overlapping others or not, returns the payload its own
\* token was made from, signed with its own key.
C39_SignSnapshot ==
    /\ [][\A s \in DOMAIN signing :
             /\ SignerInvoked(s) =>
                    /\ signing'[s].payload = PayloadNow
                    /\ signing'[s].key = KeyNow(signing'[s].signingKey)
                    /\ signing'[s].signerCalls[1].claims = PayloadNow
                    /\ signing'[s].signerCalls[1].key = KeyNow(signing'[s].signingKey).key
             /\ (signing[s].pc = "awaitSign" /\ signing'[s].pc = "awaitSign") =>
                    signing'[s] = signing[s]
             /\ SignResolves(s) =>
                    /\ signing'[s].completion.value.payload = signing[s].payload
                    /\ signing'[s].completion.value.jwt =
                           Token(TRUE, signing[s].key.key.m, jsonClaims(signing[s].payload))
       ]_vars
    /\ [](\A s \in DOMAIN signing :
              signing[s].pc = "resolved" =>
                  /\ signing[s].completion.value.payload = signing[s].payload
                  /\ signing[s].completion.value.jwt.claims = jsonClaims(signing[s].payload)
                  /\ signing[s].completion.value.jwt.secret = signing[s].key.key.m)

\* two sign calls were pending together, with different payloads and keys,
\* the builder was reset meanwhile, and the first has returned its own payload
C39_Witness ==
    /\ signing[1].pc = "resolved"
    /\ signing[2].pc = "awaitSign"
    /\ signing[1].generated /\ ~signing[2].generated
    /\ "custom" \in DOMAIN signing[1].payload
    /\ "custom" \notin DOMAIN signing[2].payload
    /\ signing[1].key # signing[2].key
    /\ signing[2].key = keyW
    /\ Len(builder.events.keys) = 0
    /\ builder.signingKey = keyA
    /\ signing[1].completion.value.payload = signing[1].payload

(***************************************************************************)
(* Properties of the Events factories: the entry and its subject.          *)
(***************************************************************************)
\* the canonical event-type URI of a factory
UriOf(factory) ==
    CASE factory = "sessionRevoked" -> SESSION_REVOKED
      [] factory = "tokenClaimsChange" -> TOKEN_CLAIMS_CHANGE
      [] factory = "credentialChange" -> CREDENTIAL_CHANGE
      [] factory = "assuranceLevelChange" -> ASSURANCE_LEVEL_CHANGE
      [] factory = "deviceComplianceChange" -> DEVICE_COMPLIANCE_CHANGE
      [] factory = "streamUpdated" -> STREAM_UPDATED
      [] factory = "verification" -> VERIFICATION

\* the factories that take a subject and a timestamp
SubjectFactories ==
    {"sessionRevoked", "tokenClaimsChange", "credentialChange", "assuranceLevelChange",
     "deviceComplianceChange"}

\* C40: every factory returns a mapping with exactly one entry, keyed by the
\* canonical event-type URI of the factory; subject and event_timestamp of
\* the entry's record are the subject and timestamp arguments, whatever the
\* optional arguments, an options record that itself holds a subject or an
\* event_timestamp included.
C40_OneEntryWithSubject ==
    lastEvent # NothingMade =>
        /\ lastEvent.event.keys = <<UriOf(lastEvent.factory)>>
        /\ lastEvent.factory \in SubjectFactories =>
              /\ DataOf(lastEvent).vals["subject"] = lastEvent.args[1]
              /\ DataOf(lastEvent).vals["event_timestamp"] = lastEvent.args[2]

====
